---- MODULE Spec2Model ----
(***************************************************************************)
(* Model of the TrendGenie token scanner's risk evaluation core.           *)
(*                                                                         *)
(* Two scan handlers exist in the repository:                              *)
(*   variant "route" : src/app/api/scan/route.ts, three inline checks      *)
(*                     (runOwnershipCheck, runHoneypotCheck,               *)
(*                      analyzeLiquidityAndLpHealth), aggregateOverallRisk *)
(*   variant "lib"   : the handler that calls checkOwner, checkHoneypot    *)
(*                     (src/lib/risk) and aggregateResults                 *)
(* Every check is a small step machine whose steps are its awaits; the     *)
(* external collaborators (RPC node, honeypot service) answer each await   *)
(* nondeterministically.                                                   *)
(***************************************************************************)
EXTENDS Integers, Sequences, FiniteSets, TLC

VARIABLES
    variant,    \* which handler implementation serves the request
    env,        \* chains whose RPC URL is set in the environment
    req,        \* the request body being served
    hnd,        \* POST handler: position, validated input, response
    own,        \* ownership check: position, values read, outcome
    hp,         \* honeypot check: position, HTTP response, outcome
    lp,         \* liquidity check: position, loop index, pool, outcome
    calls,      \* external calls issued while serving the request
    aggIn,      \* input of the aggregators (pure-function specification)
    aggOut,     \* output of the aggregators
    aggAlt,     \* output of the aggregators on a rearrangement of the input
    view,       \* result card of the page: explain mode, check, rendering
    cache,      \* data cache of the framework's fetch: stored honeypot responses
    scans       \* requests received so far, and how many the run serves

vars == <<variant, env, req, hnd, own, hp, lp, calls, aggIn, aggOut, aggAlt, view,
          cache, scans>>

----------------------------------------------------------------------------
(* Bounds *)

MaxChecks == 4          \* longest checks sequence handed to the aggregators
MaxScans == 2           \* requests served one after the other by a handler

----------------------------------------------------------------------------
(* Shared data shapes *)

RiskLevel == {"green", "yellow", "red"}

\* An optional value is the empty set or a singleton.
None == {}
Some(x) == {x}
The(o) == CHOOSE x \in o : TRUE

RiskCheckResult(id, label, level, details) ==
    [id |-> id, label |-> label, level |-> level, details |-> details]

\* Sequences over S of length 0..n
RECURSIVE SeqsUpTo(_, _)
SeqsUpTo(S, n) ==
    IF n = 0 THEN {<<>>}
    ELSE LET shorter == SeqsUpTo(S, n - 1)
         IN  shorter \cup {Append(s, x) : s \in {t \in shorter : Len(t) = n - 1}, x \in S}

----------------------------------------------------------------------------
(* Aggregators *)

\* Array.prototype.includes over a sequence
Includes(seq, x) == \E i \in 1..Len(seq) : seq[i] = x

aggregateResultsLastWins(checks) ==
    [overall |-> IF Len(checks) = 0 THEN "green" ELSE checks[Len(checks)].level,
     checks  |-> checks]

aggregateResultsYellowFirst(checks) ==
    LET levels == [i \in 1..Len(checks) |-> checks[i].level]
        overall == IF Includes(levels, "yellow") THEN "yellow"
                   ELSE IF Includes(levels, "red") THEN "red"
                   ELSE "green"
    IN  [overall |-> overall, checks |-> checks]

aggregateResults(checks) ==
    LET levels == [i \in 1..Len(checks) |-> checks[i].level]
        overall == IF Includes(levels, "red") THEN "red"
                   ELSE IF Includes(levels, "yellow") THEN "yellow"
                   ELSE "green"
    IN  [overall |-> overall, checks |-> checks]

aggregateOverallRiskYellowFirst(checks) ==
    IF \E i \in 1..Len(checks) : checks[i].level = "yellow" THEN "yellow"
    ELSE IF \E i \in 1..Len(checks) : checks[i].level = "red" THEN "red"
    ELSE "green"

aggregateOverallRisk(checks) ==
    IF \E i \in 1..Len(checks) : checks[i].level = "red" THEN "red"
    ELSE IF \E i \in 1..Len(checks) : checks[i].level = "yellow" THEN "yellow"
    ELSE "green"

----------------------------------------------------------------------------
(* Addresses.  Strings are abbreviated; letter case is kept because the    *)
(* code compares addresses after toLowerCase().                            *)

ZERO_ADDRESS == "0x0000"

ToLowerCase(s) ==
    CASE s = "0x73feaa1eE3" -> "0x73feaa1ee3"
      [] s = "0x73FEAA1EE3" -> "0x73feaa1ee3"
      [] s = "0xAb01"       -> "0xab01"
      [] s = "0xCd02"       -> "0xcd02"
      [] s = "0xTok"        -> "0xtok"
      [] s = "0xC02aaA"     -> "0xc02aaa"
      [] s = "0xdAC17F"     -> "0xdac17f"
      [] s = "0xA0b869"     -> "0xa0b869"
      [] s = "0xbb4CdB"     -> "0xbb4cdb"
      [] s = "0x55d398"     -> "0x55d398"
      [] s = "0xe9e7CE"     -> "0xe9e7ce"
      [] s = "0xPair1"      -> "0xpair1"
      [] OTHER              -> s

\* viem isAddress / ethers.isAddress on the strings a caller can pass
isAddress(s) == s \in {"0xtok", "0xTok"}

\* Owner values an owner()/getOwner() read can decode to
OwnerValues ==
    {ZERO_ADDRESS, "0x73feaa1eE3", "0x73FEAA1EE3", "0x73feaa1ee3", "0xAb01", "0xCd02"}

\* Answers of getCode: undefined, empty bytecode, deployed bytecode
CodeValues == {None, Some("0x"), Some("0x6080")}

----------------------------------------------------------------------------
(* Ownership check, src/lib/risk/ownerCheck.ts *)

TRUSTED_OWNERS == [eth |-> <<>>, bsc |-> <<"0x73feaa1eE3">>]

isTrustedOwner(chain, owner) ==
    LET list  == TRUSTED_OWNERS[chain]
        lower == ToLowerCase(owner)
    IN  \E i \in 1..Len(list) : ToLowerCase(list[i]) = lower

OwnershipLabel == "Contract Ownership"

OwnerUnknownDetails ==
    <<"This token does not expose a standard owner() function, or the call failed. Treat this as neutral.">>

\* the catch block of checkOwner
checkOwnerCatch ==
    RiskCheckResult("owner-unknown", OwnershipLabel, "green", OwnerUnknownDetails)

\* the awaits of checkOwner that sit inside its try block
checkOwnerTryWithoutGetCode == {"readContract"}

checkOwnerTry == {"readContract", "getCode"}

OwnReturn(o, r) == [o EXCEPT !.pc = "returned", !.result = Some(r)]

\* an await of checkOwner throws
checkOwnerThrow(o, step) ==
    IF step \in checkOwnerTry THEN OwnReturn(o, checkOwnerCatch)
    ELSE [o EXCEPT !.pc = "rejected"]

\* checkOwner up to its first await
checkOwnerBeginUnvalidated(token, chain) ==
    [pc |-> "readContract", token |-> token, chain |-> chain,
     owner |-> None, code |-> None, result |-> None]

checkOwnerBegin(token, chain) ==
    LET o == [pc |-> "start", token |-> token, chain |-> chain,
              owner |-> None, code |-> None, result |-> None]
    IN  IF ~isAddress(token)
        THEN OwnReturn(o, RiskCheckResult("owner-invalid", OwnershipLabel, "red",
                          <<"Invalid token address passed into ownership check.">>))
        ELSE [o EXCEPT !.pc = "readContract"]

\* checkOwner after readContract resolved with owner, up to the next await
checkOwnerAfterRead(o0, owner) ==
    LET o == [o0 EXCEPT !.owner = Some(owner)]
    IN  IF ToLowerCase(owner) = ToLowerCase(ZERO_ADDRESS)
        THEN OwnReturn(o, RiskCheckResult("owner-renounced", OwnershipLabel, "green",
                 <<"Ownership appears renounced (owner is the zero address).">>))
        ELSE IF isTrustedOwner(o.chain, owner)
        THEN OwnReturn(o, RiskCheckResult("owner-trusted", OwnershipLabel, "green",
                 <<"Ownership is held by a known infrastructure contract (", owner, ").">>))
        ELSE [o EXCEPT !.pc = "getCode"]

\* checkOwner after getCode resolved
checkOwnerAfterCode(o0, code) ==
    LET o     == [o0 EXCEPT !.code = Some(code)]
        owner == The(o.owner)
        isEOA == code = None \/ code = Some("0x")
    IN  IF isEOA
        THEN OwnReturn(o, RiskCheckResult("owner-eoa", OwnershipLabel, "yellow",
                 <<"Ownership is NOT renounced and is controlled by a normal wallet address (",
                   owner, "). Medium rug risk.">>))
        ELSE OwnReturn(o, RiskCheckResult("owner-contract", OwnershipLabel, "green",
                 <<"Ownership is held by another contract (", owner,
                   "). Not automatically safe.">>))

----------------------------------------------------------------------------
(* Ownership check, src/app/api/scan/route.ts *)

\* the classification of runOwnershipCheck once tryReadOwner has resolved
runOwnershipCheckClassify(o0, owner) ==
    LET o == [o0 EXCEPT !.owner = owner]
    IN  IF owner = None
        THEN OwnReturn(o, RiskCheckResult("ownership", OwnershipLabel, "yellow",
                 <<"Ownership pattern is not a standard Ownable interface, so the owner address could not be read reliably.">>))
        ELSE IF The(owner) = ZERO_ADDRESS
        THEN OwnReturn(o, RiskCheckResult("ownership", OwnershipLabel, "green",
                 <<"Ownership is renounced (owner is the zero address).">>))
        ELSE OwnReturn(o, RiskCheckResult("ownership", OwnershipLabel, "yellow",
                 <<"Ownership is not renounced. Owner: ", The(owner), ".">>))

\* runOwnershipCheck up to its first await: tryReadOwner calls owner()
runOwnershipCheckBegin(token, chain) ==
    [pc |-> "owner()", token |-> token, chain |-> chain,
     owner |-> None, code |-> None, result |-> None]

\* tryReadOwner after owner() or getOwner() resolved with a value
tryReadOwnerAfterRead(o, owner) ==
    IF owner # "" /\ owner # ZERO_ADDRESS
    THEN runOwnershipCheckClassify(o, Some(owner))
    ELSE IF owner = ZERO_ADDRESS
    THEN runOwnershipCheckClassify(o, Some(ZERO_ADDRESS))
    ELSE IF o.pc = "owner()" THEN [o EXCEPT !.pc = "getOwner()"]
    ELSE runOwnershipCheckClassify(o, None)

\* tryReadOwner after owner() or getOwner() threw: the empty catch blocks
tryReadOwnerAfterThrow(o) ==
    IF o.pc = "owner()" THEN [o EXCEPT !.pc = "getOwner()"]
    ELSE runOwnershipCheckClassify(o, None)

----------------------------------------------------------------------------
(* Honeypot service payloads.  Every field is optional (None when absent). *)

\* the decoded JSON document; shape "null" is the JSON value null
Payload(risk, riskLevel, isHoneypot, topIsHoneypot, simIsHoneypot, extras) ==
    [shape |-> "object",
     risk |-> risk,                     \* summary.risk
     riskLevel |-> riskLevel,           \* summary.riskLevel
     isHoneypot |-> isHoneypot,         \* honeypotResult.isHoneypot
     topIsHoneypot |-> topIsHoneypot,   \* isHoneypot at the top level
     simIsHoneypot |-> simIsHoneypot,   \* simulation.isHoneypot
     token |-> extras.token,            \* token: [symbol, name]
     reason |-> extras.reason,          \* honeypotResult.honeypotReason
     sim |-> extras.sim,                \* simulationResult: [buyTax, sellTax, transferTax]
     flags |-> extras.flags]            \* summary.flags

NoExtras == [token |-> None, reason |-> None, sim |-> None, flags |-> None]

NullPayload ==
    [Payload(None, None, None, None, None, NoExtras) EXCEPT !.shape = "null"]

\* a ?? b on optional values
Coalesce(a, b) == IF a # None THEN a ELSE b

----------------------------------------------------------------------------
(* Honeypot check, src/lib/risk/honeypotCheck.ts *)

mapRiskToLevelCategoryFirst(risk, riskLevel, isHoneypot) ==
    LET rl == IF riskLevel = None THEN -1 ELSE The(riskLevel)
        byScore == IF rl >= 90 THEN "red"
                   ELSE IF rl >= 60 THEN "yellow"
                   ELSE IF rl >= 0 /\ rl < 20 THEN "green"
                   ELSE "yellow"
    IN  IF risk = Some("honeypot") THEN "red"
        ELSE IF risk = Some("very_high") THEN "red"
        ELSE IF risk = Some("high") THEN "red"
        ELSE IF risk = Some("medium") THEN "yellow"
        ELSE IF risk \in {Some("low"), Some("very_low")} THEN "green"
        ELSE IF isHoneypot = Some(TRUE) THEN "red"
        ELSE byScore

mapRiskToLevel(risk, riskLevel, isHoneypot) ==
    LET rl == IF riskLevel = None THEN -1 ELSE The(riskLevel)
    IN  IF isHoneypot = Some(TRUE) THEN "red"
        ELSE IF risk = Some("honeypot") THEN "red"
        ELSE IF risk = Some("very_high") THEN "red"
        ELSE IF risk = Some("high") THEN "red"
        ELSE IF risk = Some("medium") THEN "yellow"
        ELSE IF risk \in {Some("low"), Some("very_low")} THEN "green"
        ELSE IF rl >= 90 THEN "red"
        ELSE IF rl >= 60 THEN "yellow"
        ELSE IF rl >= 0 /\ rl < 20 THEN "green"
        ELSE "yellow"

\* risk.replace("_", " "): the first underscore only
ReplaceUnderscore(risk) ==
    CASE risk = "very_high" -> "very high"
      [] risk = "very_low"  -> "very low"
      [] OTHER              -> risk

\* a string-valued optional field is truthy when present and not ""
Truthy(o) == o # None /\ The(o) # ""

\* stable insertion of flag f into seq sorted by severityIndex descending
RECURSIVE InsertFlag(_, _)
InsertFlag(sorted, f) ==
    LET sev(x) == IF x.severityIndex = None THEN 0 ELSE The(x.severityIndex)
    IN  IF sorted = <<>> THEN <<f>>
        ELSE IF sev(Head(sorted)) >= sev(f)
             THEN <<Head(sorted)>> \o InsertFlag(Tail(sorted), f)
             ELSE <<f>> \o sorted

\* [...flags].sort((a, b) => (b.severityIndex ?? 0) - (a.severityIndex ?? 0))
RECURSIVE SortFlags(_)
SortFlags(flags) ==
    IF flags = <<>> THEN <<>>
    ELSE InsertFlag(SortFlags(SubSeq(flags, 1, Len(flags) - 1)), flags[Len(flags)])

\* join the fragments of seq with separator sep
RECURSIVE Join(_, _)
Join(seq, sep) ==
    IF seq = <<>> THEN <<>>
    ELSE IF Len(seq) = 1 THEN <<seq[1]>>
    ELSE <<seq[1], sep>> \o Join(Tail(seq), sep)

detailsFallbackGreenOnly(level) ==
    IF level = "green"
    THEN <<"No honeypot behaviour detected by Honeypot.is and no major warnings were returned.">>
    ELSE <<>>

\* buildDetails when no part was pushed: the generic sentence for the level
detailsFallback(level) ==
    IF level = "green"
    THEN <<"No honeypot behaviour detected by Honeypot.is and no major warnings were returned.">>
    ELSE <<"Honeypot.is did not return detailed data. Treat this token with caution and double-check before investing.">>

buildDetails(resp, level) ==
    LET token == resp.token
        symbol == IF token = None THEN None ELSE The(token).symbol
        name   == IF token = None THEN None ELSE The(token).name
        tokenNamePart ==
            IF Truthy(symbol) /\ Truthy(name) THEN <<The(symbol), " (", The(name), ")">>
            ELSE IF Truthy(symbol) THEN <<The(symbol)>>
            ELSE IF Truthy(name) THEN <<The(name)>>
            ELSE <<"This token">>
        riskPart ==
            IF Truthy(resp.risk)
            THEN IF resp.riskLevel # None
                 THEN <<tokenNamePart \o <<" is rated as ", ReplaceUnderscore(The(resp.risk)),
                          " risk by Honeypot.is (score ", ToString(The(resp.riskLevel)), "/100).">> >>
                 ELSE <<tokenNamePart \o <<" is rated as ", ReplaceUnderscore(The(resp.risk)),
                          " risk by Honeypot.is.">> >>
            ELSE <<>>
        hpPart ==
            IF resp.isHoneypot = Some(TRUE)
            THEN IF Truthy(resp.reason)
                 THEN << <<"The token is reported as a honeypot. Reason: ", The(resp.reason), ".">> >>
                 ELSE << <<"The token is reported as a honeypot (sell very likely blocked).">> >>
            ELSE <<>>
        sim == resp.sim
        taxes ==
            IF sim = None THEN <<>>
            ELSE (IF The(sim).buyTax # None
                  THEN << <<"buy tax ~", ToString(The(The(sim).buyTax)), "%">> >> ELSE <<>>)
              \o (IF The(sim).sellTax # None
                  THEN << <<"sell tax ~", ToString(The(The(sim).sellTax)), "%">> >> ELSE <<>>)
              \o (IF The(sim).transferTax # None
                  THEN << <<"transfer tax ~", ToString(The(The(sim).transferTax)), "%">> >> ELSE <<>>)
        FlattenTaxes == Join(taxes, <<", ">>)
        taxPart ==
            IF Len(taxes) > 0
            THEN << <<"Detected taxes: ">>
                    \o [i \in 1..Len(FlattenTaxes) |-> FlattenTaxes[i][1]] \o <<".">> >>
            ELSE <<>>
        flags == resp.flags
        sorted == IF flags = None THEN <<>> ELSE SortFlags(The(flags))
        top == SubSeq(sorted, 1, IF Len(sorted) < 3 THEN Len(sorted) ELSE 3)
        text(f) == IF Truthy(f.description) THEN f.description ELSE f.flag
        flagTexts == SelectSeq([i \in 1..Len(top) |-> text(top[i])], Truthy)
        flagPart ==
            IF flags # None /\ Len(The(flags)) > 0 /\ Len(flagTexts) > 0
            THEN << <<"Key warnings: ">>
                    \o Join([i \in 1..Len(flagTexts) |-> The(flagTexts[i])], " | ") >>
            ELSE <<>>
        parts == riskPart \o hpPart \o taxPart \o flagPart
        all == IF Len(parts) = 0 THEN <<detailsFallback(level)>> ELSE parts
        joined == Join(all, <<" ">>)
        RECURSIVE Concat(_)
        Concat(ss) == IF ss = <<>> THEN <<>> ELSE Head(ss) \o Concat(Tail(ss))
    IN  Concat(joined)


\* HTTP responses: body.kind is "json" (parses to body.data), "text" (does
\* not parse as JSON) or "broken" (reading the body fails)
HttpResponse(status, kind, text, data) ==
    [status |-> status, body |-> [kind |-> kind, text |-> text, data |-> data]]

Ok(res) == res.status >= 200 /\ res.status <= 299

\* error?.message || "unknown"
MessageOrUnknown(err) == IF err.message # "" THEN err.message ELSE "unknown"

HoneypotLibLabel == "Honeypot Risk (Honeypot.is)"

HpReturn(h, r) == [h EXCEPT !.pc = "returned", !.result = Some(r)]

\* fetchWithTimeout's finally block: clearTimeout(id)
clearTimeout(h) == [h EXCEPT !.timer = IF h.timer = "armed" THEN "cleared" ELSE h.timer]

checkHoneypotCatchGreen(h, err) ==
    HpReturn(clearTimeout(h), RiskCheckResult("honeypot-api-error", HoneypotLibLabel, "green",
        <<"Could not complete honeypot check (network or timeout error). Error: ",
          MessageOrUnknown(err), ". Treat this result as neutral and do extra checks.">>))

\* the catch block of checkHoneypot
checkHoneypotCatch(h, err) ==
    HpReturn(clearTimeout(h), RiskCheckResult("honeypot-api-error", HoneypotLibLabel, "yellow",
        <<"Could not complete honeypot check (network or timeout error). Error: ",
          MessageOrUnknown(err), ". Treat this result as neutral and do extra checks.">>))

\* checkHoneypot up to its first await: fetchWithTimeout(url, 7000) arms the
\* abort timer and awaits fetch(url, {signal, cache: "no-store"})
checkHoneypotBegin(token, chain) ==
    [pc |-> "fetch", token |-> token, chain |-> chain, res |-> None, result |-> None,
     timer |-> "armed", answeredIn |-> 0]

\* checkHoneypot after the fetch resolved: fetchWithTimeout's finally block
\* clears the timer, then the body is awaited
checkHoneypotAfterFetch(h, res) ==
    [h EXCEPT !.res = Some(res), !.timer = "cleared",
              !.pc = IF ~Ok(res) THEN "text" ELSE "json"]

\* checkHoneypot, !res.ok: after res.text().catch(() => "") resolved
checkHoneypotAfterText(h) ==
    LET res  == The(h.res)
        text == IF res.body.kind = "broken" THEN "" ELSE res.body.text
    IN  HpReturn(h, RiskCheckResult("honeypot-api-failed", HoneypotLibLabel, "yellow",
            <<"Failed to query Honeypot.is (HTTP ", ToString(res.status), "). Response: ",
              IF text # "" THEN text ELSE "no body",
              ". Treat this as neutral and do extra checks manually.">>))

\* checkHoneypot, res.ok: after res.json() settled
checkHoneypotAfterJson(h) ==
    LET res == The(h.res)
    IN  IF res.body.kind = "broken"
        THEN checkHoneypotCatch(h, [name |-> "TypeError", message |-> "terminated"])
        ELSE IF res.body.kind = "text"
        THEN checkHoneypotCatch(h, [name |-> "SyntaxError", message |-> "Unexpected token"])
        ELSE IF res.body.data.shape = "null"
        THEN checkHoneypotCatch(h, [name |-> "TypeError",
                                    message |-> "Cannot read properties of null"])
        ELSE LET json  == res.body.data
                 level == mapRiskToLevel(json.risk, json.riskLevel, json.isHoneypot)
             IN  HpReturn(h, RiskCheckResult("honeypot-api", HoneypotLibLabel, level,
                                             buildDetails(json, level)))

----------------------------------------------------------------------------
(* Honeypot check, src/app/api/scan/route.ts *)

HoneypotRouteLabel == "Honeypot Behaviour"

\* the catch block of runHoneypotCheck
runHoneypotCheckCatch(h, err) ==
    HpReturn(h, RiskCheckResult("honeypot", HoneypotRouteLabel, "yellow",
        <<"Honeypot check failed due to a network or parsing error: ", err.message, ".">>))

\* runHoneypotCheck up to its first await: fetch(url, {next: {revalidate: 60}}),
\* without an abort signal
runHoneypotCheckBegin(token, chain) ==
    [pc |-> "fetch", token |-> token, chain |-> chain, res |-> None, result |-> None,
     timer |-> "none", answeredIn |-> 0]

\* runHoneypotCheck after the fetch resolved: awaits res.text()
runHoneypotCheckAfterFetch(h, res) ==
    [h EXCEPT !.res = Some(res), !.pc = "text"]

\* runHoneypotCheck after res.text() settled
runHoneypotCheckAfterText(h) ==
    LET res      == The(h.res)
        bodyText == res.body.text
        data     == res.body.data
        isHoneypot ==
            IF data.shape = "null" THEN None
            ELSE Coalesce(data.isHoneypot, Coalesce(data.topIsHoneypot, data.simIsHoneypot))
        R(level, details) == HpReturn(h, RiskCheckResult("honeypot", HoneypotRouteLabel, level, details))
    IN  IF res.body.kind = "broken"
        THEN runHoneypotCheckCatch(h, [name |-> "TypeError", message |-> "terminated"])
        ELSE IF ~Ok(res)
        THEN IF res.status = 404
             THEN R("yellow", <<"Failed to query Honeypot.is (HTTP ", "404", "). Response: ",
                                bodyText, ". Treat this as neutral and do extra checks manually.">>)
             ELSE R("yellow", <<"Honeypot.is request failed with status ", ToString(res.status),
                                ". Raw response: ", bodyText, ".">>)
        ELSE IF res.body.kind = "text"
        THEN R("yellow", <<"Honeypot.is returned non-JSON response. Raw body: ", bodyText, ".">>)
        ELSE IF isHoneypot = Some(TRUE)
        THEN R("red", <<"Honeypot.is flagged this token as a honeypot in its trade simulation.">>)
        ELSE IF isHoneypot = Some(FALSE)
        THEN R("green", <<"Honeypot.is did not detect honeypot behaviour in its simulation.">>)
        ELSE R("yellow", <<"Honeypot.is response was received but could not be interpreted cleanly.">>)

----------------------------------------------------------------------------
(* Liquidity check, src/app/api/scan/route.ts *)

\* Quantities are decimal numbers m * 10^e (a raw uint112 reserve, or the
\* human-scale value formatUnits and parseFloat make of it).
Num(m, e) == [m |-> m, e |-> e]

RECURSIVE Pow10(_)
Pow10(n) == IF n = 0 THEN 1 ELSE 10 * Pow10(n - 1)

\* x < t for a quantity x and an integer threshold 0 < t <= 10000
LessThan(x, t) ==
    IF x.m = 0 THEN TRUE
    ELSE IF x.e >= 0 THEN x.e <= 5 /\ x.m * Pow10(x.e) < t
    ELSE IF -x.e > 5 THEN TRUE
    ELSE x.m < t * Pow10(-x.e)

\* parseFloat(ethers.formatUnits(raw, decimals))
formatUnits(raw, decimals) == Num(raw.m, raw.e - decimals)

\* Number.prototype.toFixed(3) as text fragments
toFixed3(x) == <<ToString(x.m), "e", ToString(x.e)>>

BaseToken(address, symbol, decimals, kind) ==
    [address |-> address, symbol |-> symbol, decimals |-> decimals, kind |-> kind]

DEX_CONFIG ==
    [eth |-> [factory |-> "0x5C69bE",
              baseTokens |-> <<BaseToken("0xC02aaA", "WETH", 18, "native"),
                               BaseToken("0xdAC17F", "USDT", 6, "stable"),
                               BaseToken("0xA0b869", "USDC", 6, "stable")>>],
     bsc |-> [factory |-> "0xca143c",
              baseTokens |-> <<BaseToken("0xbb4CdB", "WBNB", 18, "native"),
                               BaseToken("0x55d398", "USDT", 18, "stable"),
                               BaseToken("0xe9e7CE", "BUSD", 18, "stable")>>]]

LpLabel == "Liquidity & LP Health"

LpReturn(l, r) == [l EXCEPT !.pc = "returned", !.result = Some(r)]

lpNoPoolResultYellow ==
    RiskCheckResult("lp-health", LpLabel, "yellow",
        <<"No primary DEX liquidity pool was found for this token. Very high exit risk.">>)

\* the result returned when foundPool is null
lpNoPoolResult ==
    RiskCheckResult("lp-health", LpLabel, "red",
        <<"No primary DEX liquidity pool was found for this token. Very high exit risk.">>)

\* `${pairAddress.slice(0, 6)}...${pairAddress.slice(-4)}`
shortPair(pairAddress) ==
    CASE pairAddress = "0xPair1" -> <<"0xPair", "...", "air1">>
      [] pairAddress = "0xPair2" -> <<"0xPair", "...", "air2">>
      [] OTHER                   -> <<pairAddress, "...", pairAddress>>

lpLevelOneLadder(kind, baseReserve) ==
    IF LessThan(baseReserve, 2000) THEN "red"
    ELSE IF LessThan(baseReserve, 10000) THEN "yellow"
    ELSE "green"

\* the threshold ladders applied to a found pool
lpLevel(kind, baseReserve) ==
    IF kind = "stable"
    THEN IF LessThan(baseReserve, 2000) THEN "red"
         ELSE IF LessThan(baseReserve, 10000) THEN "yellow"
         ELSE "green"
    ELSE IF LessThan(baseReserve, 5) THEN "red"
         ELSE IF LessThan(baseReserve, 30) THEN "yellow"
         ELSE "green"

lpHeadline(kind, level) ==
    IF kind = "stable"
    THEN CASE level = "red"    -> "Extremely thin stablecoin liquidity."
           [] level = "yellow" -> "Moderate stablecoin liquidity."
           [] OTHER            -> "Decent stablecoin-side liquidity."
    ELSE CASE level = "red"    -> "Very thin native asset liquidity."
           [] level = "yellow" -> "Medium native asset liquidity."
           [] OTHER            -> "Relatively deep native asset liquidity."

\* analyzeLiquidityAndLpHealth after the try block
lpFinish(l) ==
    IF l.found = None THEN LpReturn(l, lpNoPoolResult)
    ELSE LET pool  == The(l.found)
             level == lpLevel(pool.base.kind, pool.baseReserve)
             details ==
                 <<lpHeadline(pool.base.kind, level), "",
                   "Detected pool on ",
                   IF l.chain = "eth" THEN "Uniswap V2-style DEX" ELSE "PancakeSwap V2-style DEX",
                   " with base pair ", pool.base.symbol, ".",
                   "Token side reserve: ~">> \o toFixed3(pool.tokenReserve) \o
                 <<" tokens", pool.base.symbol, " side reserve: ~">> \o toFixed3(pool.baseReserve) \o
                 <<"Pair address: ">> \o shortPair(pool.pairAddress) \o
                 <<"", "It does not yet analyse whether LP tokens are locked or who holds the LP.">>
         IN  LpReturn(l, RiskCheckResult("lp-health", LpLabel, level, details))

lpTryWithoutPairReads == {"getPair", "decimals"}

\* the awaits of analyzeLiquidityAndLpHealth that sit inside its try block
lpTry == {"getPair", "pairReads", "decimals"}

\* an await throws: the catch block logs and falls through with foundPool unset
lpThrow(l, step) ==
    IF step \in lpTry THEN lpFinish([l EXCEPT !.found = None])
    ELSE [l EXCEPT !.pc = "rejected"]

lpContinueStops(l) == lpFinish(l)

\* the for loop moves to the next base token, or ends
lpContinue(l) ==
    IF l.i < Len(DEX_CONFIG[l.chain].baseTokens)
    THEN [l EXCEPT !.pc = "getPair", !.i = l.i + 1, !.pair = None, !.raw = None]
    ELSE lpFinish(l)

\* analyzeLiquidityAndLpHealth up to its first await: factory.getPair
lpBegin(token, chain) ==
    [pc |-> "getPair", token |-> token, chain |-> chain, i |-> 1, pairs |-> <<>>,
     sides |-> <<>>, pair |-> None, raw |-> None, decimals |-> None,
     found |-> None, result |-> None]

\* after getPair resolved with pairAddress
\* (pairs keeps the factory's answers so far, sides what each pair answered
\* for token0 and token1, <<>> while it has not)
lpAfterGetPair(l0, pairAddress) ==
    LET l == [l0 EXCEPT !.pairs = Append(l0.pairs, pairAddress),
                        !.sides = Append(l0.sides, <<>>)]
    IN  IF pairAddress = "" \/ pairAddress = ZERO_ADDRESS THEN lpContinue(l)
        ELSE [l EXCEPT !.pc = "pairReads", !.pair = Some(pairAddress)]

\* after Promise.all([token0(), token1(), getReserves()]) resolved
lpAfterPairReads(l0, token0, token1, reserves) ==
    LET l           == [l0 EXCEPT !.sides[l0.i] = <<token0, token1>>]
        base        == DEX_CONFIG[l.chain].baseTokens[l.i]
        tokenLower  == ToLowerCase(l.token)
        token0Lower == ToLowerCase(token0)
        token1Lower == ToLowerCase(token1)
    IN  IF token0Lower = tokenLower /\ token1Lower = ToLowerCase(base.address)
        THEN [l EXCEPT !.pc = "decimals",
                       !.raw = Some([tokenReserveRaw |-> reserves[1], baseReserveRaw |-> reserves[2]])]
        ELSE IF token1Lower = tokenLower /\ token0Lower = ToLowerCase(base.address)
        THEN [l EXCEPT !.pc = "decimals",
                       !.raw = Some([tokenReserveRaw |-> reserves[2], baseReserveRaw |-> reserves[1]])]
        ELSE lpContinue(l)

lpAfterDecimalsAborting(l0, decimals) ==
    LET l             == [l0 EXCEPT !.decimals = Some(decimals)]
        base          == DEX_CONFIG[l.chain].baseTokens[l.i]
        tokenDecimals == IF decimals = None THEN 18 ELSE The(decimals)
        raw           == The(l.raw)
        foundPool     == [pairAddress |-> The(l.pair), base |-> base,
                          baseReserve |-> formatUnits(raw.baseReserveRaw, base.decimals),
                          tokenReserve |-> formatUnits(raw.tokenReserveRaw, tokenDecimals)]
    IN  lpFinish([l EXCEPT !.found = IF decimals = None THEN None ELSE Some(foundPool)])

\* after meta.decimals() settled (None: it threw, tokenDecimals stays 18);
\* decimals keeps how the read settled
lpAfterDecimals(l0, decimals) ==
    LET l             == [l0 EXCEPT !.decimals = Some(decimals)]
        base          == DEX_CONFIG[l.chain].baseTokens[l.i]
        tokenDecimals == IF decimals = None THEN 18 ELSE The(decimals)
        raw           == The(l.raw)
        foundPool     == [pairAddress |-> The(l.pair), base |-> base,
                          baseReserve |-> formatUnits(raw.baseReserveRaw, base.decimals),
                          tokenReserve |-> formatUnits(raw.tokenReserveRaw, tokenDecimals)]
    IN  lpFinish([l EXCEPT !.found = Some(foundPool)])

----------------------------------------------------------------------------
(* Inputs and answers of the external collaborators *)

\* a check function is being invoked directly, outside a POST handler
Direct == hnd.pc = "direct"

\* the run serves several requests one after the other: the domains are the
\* smallest that still take every step of every check
Repeat == scans.max > 1

Chains == {"eth", "bsc"}

\* a field of the request body: absent, or a JSON number, or a JSON string
Field(type, val) == [type |-> type, val |-> val]
Undefined == Field("undefined", "")

TokenFields ==
    {Undefined, Field("number", "123"), Field("string", "  "),
     Field("string", "nothex"), Field("string", "0xtok")}

ChainFields == {Undefined, Field("string", "eth"), Field("string", "bsc"), Field("string", "sol")}

\* request bodies; json = FALSE is a body req.json() cannot parse
Requests ==
    IF Repeat
    THEN {[json |-> TRUE, tokenAddress |-> Field("string", "0xtok"), chain |-> Field("string", c)] :
             c \in Chains}
    ELSE {[json |-> FALSE, tokenAddress |-> Undefined, chain |-> Undefined]}
         \cup {[json |-> TRUE, tokenAddress |-> t, chain |-> c] : t \in TokenFields, c \in ChainFields}

\* String.prototype.trim on the strings above
Trim(s) == IF s = "  " THEN "" ELSE s

FullExtras ==
    [token |-> Some([symbol |-> Some("TKN"), name |-> Some("Token")]),
     reason |-> Some("sell blocked"),
     sim |-> Some([buyTax |-> Some(5), sellTax |-> Some(99), transferTax |-> None]),
     flags |-> Some(<<[flag |-> Some("f1"), description |-> Some("low sev"), severityIndex |-> Some(1)],
                      [flag |-> Some("f2"), description |-> None, severityIndex |-> Some(9)],
                      [flag |-> None, description |-> Some(""), severityIndex |-> None],
                      [flag |-> Some("f4"), description |-> Some("high sev"), severityIndex |-> Some(7)]>>)]

HollowExtras ==
    [token |-> Some([symbol |-> None, name |-> Some("")]),
     reason |-> None,
     sim |-> Some([buyTax |-> None, sellTax |-> None, transferTax |-> None]),
     flags |-> Some(<<[flag |-> None, description |-> Some(""), severityIndex |-> Some(3)]>>)]

RiskValues == {"honeypot", "very_high", "high", "medium", "low", "very_low", "unknown", "weird", ""}
ScoreValues == {-5, 0, 19, 20, 59, 60, 89, 90, 100}
Flags == {None, Some(TRUE), Some(FALSE)}
OptOf(S) == {None} \cup {Some(x) : x \in S}

\* payloads of a directly invoked check
Payloads ==
    {Payload(r, n, f, None, None, x) :
        r \in OptOf(RiskValues), n \in OptOf(ScoreValues), f \in Flags,
        x \in {NoExtras, FullExtras, HollowExtras}}
    \cup {Payload(None, None, f, t, m, NoExtras) : f \in Flags, t \in Flags, m \in Flags}
    \cup {NullPayload}

\* payloads within a scan
ScanPayloads ==
    {Payload(Some("low"), Some(0), Some(FALSE), None, None, NoExtras),
     Payload(Some("medium"), None, None, None, None, NoExtras),
     Payload(Some("low"), None, Some(TRUE), None, None, NoExtras),
     Payload(None, None, None, Some(FALSE), None, NoExtras),
     Payload(None, None, None, None, None, NoExtras)}

PayloadDomain ==
    IF Direct THEN Payloads
    ELSE IF Repeat
    THEN {Payload(Some("low"), Some(0), Some(FALSE), None, None, NoExtras),
          Payload(Some("low"), None, Some(TRUE), None, None, NoExtras)}
    ELSE ScanPayloads

HttpResponses ==
    {HttpResponse(st, "text", t, NullPayload) :
        st \in (IF Direct THEN {200, 404, 500} ELSE IF Repeat THEN {500} ELSE {200, 500}),
        t \in (IF Direct THEN {"", "oops"} ELSE {"oops"})}
    \cup {HttpResponse(st, "broken", "", NullPayload) : st \in (IF Repeat THEN {} ELSE {200, 500})}
    \cup {HttpResponse(200, "json", "{json}", p) : p \in PayloadDomain}
    \cup {HttpResponse(st, "json", "{json}", NullPayload) : st \in (IF Direct THEN {200, 503} ELSE {})}

\* what fetch rejects with when controller.abort() fires
AbortError == [name |-> "AbortError", message |-> "This operation was aborted"]

\* what a fetch rejects with of its own: a network error
FetchErrors ==
    {[name |-> "TypeError", message |-> "fetch failed"]}
    \cup (IF Direct THEN {[name |-> "Error", message |-> ""]} ELSE {})

OwnerDomain ==
    IF Direct THEN OwnerValues
    ELSE IF Repeat THEN {ZERO_ADDRESS, "0xAb01"}
    ELSE {ZERO_ADDRESS, "0x73feaa1eE3", "0xAb01"}

CodeDomain == IF Direct THEN CodeValues ELSE IF Repeat THEN {Some("0x")} ELSE {Some("0x"), Some("0x6080")}

\* pair addresses a factory answers with
PairDomain == IF Direct THEN {"", ZERO_ADDRESS, "0xPair1", "0xPair2"} ELSE {ZERO_ADDRESS, "0xPair1"}

\* raw reserves a pool answers with
Mantissas == {0, 1, 2, 3, 5, 15, 29, 49, 1999, 9999}
Exponents == {5, 6, 8, 9, 10, 17, 18, 19, 20, 21, 22}
RawReserves ==
    IF Direct THEN {Num(m, e) : m \in Mantissas, e \in Exponents}
    ELSE IF Repeat THEN {Num(5, 21)}
    ELSE {Num(1, 9), Num(5, 21)}
TokenRawReserves == IF Direct THEN {Num(0, 0), Num(7, 20)} ELSE {Num(7, 20)}

\* answers of token0() and token1(): the token against the base asset either
\* way round, neither of them, and the token against something else
SideDomain(l) ==
    LET base == DEX_CONFIG[l.chain].baseTokens[l.i].address
    IN  {<<"0xTok", base>>, <<base, "0xTok">>, <<"0xCd02", "0xCd02">>}
        \cup (IF Direct THEN {<<"0xTok", "0xCd02">>} ELSE {})

\* answers of decimals()
DecimalsDomain == IF Direct THEN {6, 18} ELSE {6}

Call(check, fn, i) == [check |-> check, fn |-> fn, i |-> i]

\* the external call a check is waiting for, if any
OwnCall(o) == IF o.pc \in {"returned", "rejected", "idle"} THEN {} ELSE {Call("own", o.pc, 0)}
HpCall(h)  == IF h.pc \in {"returned", "rejected", "idle"} THEN {} ELSE {Call("hp", h.pc, 0)}
LpCall(l)  == IF l.pc \in {"returned", "rejected", "idle"} THEN {} ELSE {Call("lp", l.pc, l.i)}

IdleOwn == [pc |-> "idle", token |-> "", chain |-> "", owner |-> None, code |-> None,
            result |-> None]
IdleHp  == [pc |-> "idle", token |-> "", chain |-> "", res |-> None, result |-> None,
            timer |-> "none", answeredIn |-> 0]
IdleLp  == [pc |-> "idle", token |-> "", chain |-> "", i |-> 0, pairs |-> <<>>,
            sides |-> <<>>, pair |-> None, raw |-> None, decimals |-> None,
            found |-> None, result |-> None]

----------------------------------------------------------------------------
(* POST handlers *)

Response(status, error, result) == [status |-> status, error |-> error, result |-> result]

\* src/lib/viem.ts throws while the module loads unless both RPC URLs are set;
\* route.ts only warns
ModuleLoads(v, e) == v = "lib" => e = Chains

\* getProvider(chain) throws when the chain's RPC URL is not set
getProviderThrows(e, chain) == chain \notin e

Rejected(status, error) == [status |-> status, error |-> error, token |-> "", chain |-> ""]
Accepted(token, chain)  == [status |-> 0, error |-> "", token |-> token, chain |-> chain]

\* POST of route.ts from req.json() to getProvider: the response that ends the
\* request early (status # 0), or the validated input
postRouteValidate(e, r) ==
    LET tokenAddress == IF r.tokenAddress.type = "string" THEN Trim(r.tokenAddress.val) ELSE ""
        chain        == IF r.chain.type = "undefined" THEN "eth" ELSE r.chain.val
        unexpected   == Rejected(500, "Unexpected server error while scanning this token. Please try again in a moment.")
    IN  IF ~r.json THEN unexpected
        ELSE IF r.tokenAddress.type = "number" THEN unexpected
        ELSE IF tokenAddress = "" \/ ~isAddress(tokenAddress)
        THEN Rejected(400, "Invalid or missing token contract address.")
        ELSE IF chain # "eth" /\ chain # "bsc"
        THEN Rejected(400, "Unsupported chain. Use 'eth' or 'bsc'.")
        ELSE IF getProviderThrows(e, chain) THEN unexpected
        ELSE Accepted(tokenAddress, chain)

\* POST of the lib handler from req.json() to the isAddress test
postLibValidate(r) ==
    LET tokenAddress == Trim(r.tokenAddress.val)
        chain        == IF r.chain.type = "undefined" THEN "eth" ELSE r.chain.val
        caught       == Rejected(400, "Invalid request or internal error.")
    IN  IF ~r.json THEN caught
        ELSE IF r.tokenAddress.type # "string" \/ tokenAddress = "" THEN caught
        ELSE IF r.chain.type # "undefined" /\ (r.chain.type # "string" \/ chain \notin {"eth", "bsc"})
        THEN caught
        ELSE IF ~isAddress(tokenAddress) THEN Rejected(400, "Invalid token address format.")
        ELSE Accepted(tokenAddress, chain)

IdleHnd == [pc |-> "idle", token |-> "", chain |-> "", response |-> None]

NoRequest == [json |-> FALSE, tokenAddress |-> Undefined, chain |-> Undefined]

\* a request arrives, the first or the next after an answered one; every
\* invocation of the handler starts from fresh locals and awaits req.json()
PostReceive ==
    /\ hnd.pc \in {"idle", "done"}
    /\ scans.n < scans.max
    /\ \E r \in Requests : req' = r
    /\ hnd' = [IdleHnd EXCEPT !.pc = "json"]
    /\ own' = IdleOwn
    /\ hp' = IdleHp
    /\ lp' = IdleLp
    /\ calls' = {}
    /\ scans' = [scans EXCEPT !.n = scans.n + 1]
    /\ UNCHANGED <<variant, env, aggIn, aggOut, aggAlt, view, cache>>

postCallChecksFirstOnly(token, chain) ==
    [own |-> IF variant = "route" THEN runOwnershipCheckBegin(token, chain)
             ELSE checkOwnerBegin(token, chain),
     hp  |-> IdleHp,
     lp  |-> IdleLp]

\* the array handed to Promise.all: its elements are evaluated in turn, each
\* a call of a check function that runs up to the function's first await
postCallChecks(token, chain) ==
    [own |-> IF variant = "route" THEN runOwnershipCheckBegin(token, chain)
             ELSE checkOwnerBegin(token, chain),
     hp  |-> IF variant = "route" THEN runHoneypotCheckBegin(token, chain)
             ELSE checkHoneypotBegin(token, chain),
     lp  |-> IF variant = "route" THEN lpBegin(token, chain) ELSE IdleLp]

\* the handler validates the body and either answers or calls every check
\* function, each running up to its first await, then awaits Promise.all
PostValidate ==
    /\ hnd.pc = "json"
    /\ LET v == IF variant = "route" THEN postRouteValidate(env, req) ELSE postLibValidate(req)
           o == postCallChecks(v.token, v.chain).own
           h == postCallChecks(v.token, v.chain).hp
           l == postCallChecks(v.token, v.chain).lp
       IN  IF v.status # 0
           THEN /\ hnd' = [hnd EXCEPT !.pc = "done",
                                      !.response = Some(Response(v.status, v.error, None))]
                /\ UNCHANGED <<own, hp, lp, calls>>
           ELSE /\ hnd' = [hnd EXCEPT !.pc = "awaiting", !.token = v.token, !.chain = v.chain]
                /\ own' = o
                /\ hp' = h
                /\ lp' = l
                /\ calls' = calls \cup OwnCall(o) \cup HpCall(h) \cup LpCall(l)
    /\ UNCHANGED <<variant, env, req, aggIn, aggOut, aggAlt, view, cache, scans>>

AwaitedLiquidityFirst == IF variant = "route" THEN <<lp, own, hp>> ELSE <<hp, own>>

\* the checks the handler waits for
Awaited == IF variant = "route" THEN <<own, hp, lp>> ELSE <<own, hp>>

\* Promise.all settles: it rejects as soon as one check rejects, and the
\* handler's catch block answers; it resolves once every check has returned,
\* and the handler aggregates and answers 200
PostSettle ==
    /\ hnd.pc = "awaiting"
    /\ LET rejected == \E i \in 1..Len(Awaited) : Awaited[i].pc = "rejected"
           resolved == \A i \in 1..Len(Awaited) : Awaited[i].pc = "returned"
           checks   == [i \in 1..Len(Awaited) |-> The(Awaited[i].result)]
           result   == IF variant = "route"
                       THEN [overall |-> aggregateOverallRisk(checks), checks |-> checks]
                       ELSE aggregateResults(checks)
       IN  /\ IF rejected THEN TRUE ELSE resolved
           /\ hnd' = [hnd EXCEPT !.pc = "done",
                  !.response = Some(
                      IF ~rejected THEN Response(200, "", Some(result))
                      ELSE IF variant = "route"
                      THEN Response(500, "Unexpected server error while scanning this token. Please try again in a moment.", None)
                      ELSE Response(400, "Invalid request or internal error.", None))]
    /\ UNCHANGED <<variant, env, req, own, hp, lp, calls, aggIn, aggOut, aggAlt, view, cache, scans>>

----------------------------------------------------------------------------
(* Direct invocation of one check function *)

NothingRunning == own.pc = "idle" /\ hp.pc = "idle" /\ lp.pc = "idle"

\* checkOwner is exported and takes any string; runOwnershipCheck is private
\* to route.ts, whose handler calls it with validated addresses only
CallOwnershipCheck ==
    /\ Direct /\ NothingRunning
    /\ \E token \in (IF variant = "lib" THEN {"0xtok", "nothex"} ELSE {"0xtok"}), chain \in Chains :
          own' = IF variant = "route" THEN runOwnershipCheckBegin(token, chain)
                 ELSE checkOwnerBegin(token, chain)
    /\ calls' = calls \cup OwnCall(own')
    /\ UNCHANGED <<variant, env, req, hnd, hp, lp, aggIn, aggOut, aggAlt, view, cache, scans>>

CallHoneypotCheck ==
    /\ Direct /\ NothingRunning
    /\ \E chain \in Chains :
          hp' = IF variant = "route" THEN runHoneypotCheckBegin("0xtok", chain)
                ELSE checkHoneypotBegin("0xtok", chain)
    /\ calls' = calls \cup HpCall(hp')
    /\ UNCHANGED <<variant, env, req, hnd, own, lp, aggIn, aggOut, aggAlt, view, cache, scans>>

CallLiquidityCheck ==
    /\ Direct /\ NothingRunning /\ variant = "route"
    /\ \E chain \in Chains : lp' = lpBegin("0xtok", chain)
    /\ calls' = calls \cup LpCall(lp')
    /\ UNCHANGED <<variant, env, req, hnd, own, hp, aggIn, aggOut, aggAlt, view, cache, scans>>

----------------------------------------------------------------------------
(* Steps of the checks: an external call settles and the check runs on to   *)
(* its next await or to its return                                          *)

OwnStepAbortingSiblings(o) ==
    /\ own' = o
    /\ calls' = calls \cup OwnCall(o)
    /\ hp' = IF o.pc = "returned" /\ hp.pc = "fetch" THEN [hp EXCEPT !.pc = "rejected"] ELSE hp
    /\ UNCHANGED <<variant, env, req, hnd, lp, aggIn, aggOut, aggAlt, view, cache, scans>>

OwnStep(o) ==
    /\ own' = o
    /\ calls' = calls \cup OwnCall(o)
    /\ UNCHANGED <<variant, env, req, hnd, hp, lp, aggIn, aggOut, aggAlt, view, cache, scans>>

HpStep(h) ==
    /\ hp' = h
    /\ calls' = calls \cup HpCall(h)
    /\ UNCHANGED <<variant, env, req, hnd, own, lp, aggIn, aggOut, aggAlt, view, cache, scans>>

LpStep(l) ==
    /\ lp' = l
    /\ calls' = calls \cup LpCall(l)
    /\ UNCHANGED <<variant, env, req, hnd, own, hp, aggIn, aggOut, aggAlt, view, cache, scans>>

\* checkOwner: client.readContract rejects
OwnReadContractThrows ==
    /\ own.pc = "readContract"
    /\ OwnStep(checkOwnerThrow(own, "readContract"))

\* checkOwner: client.readContract resolves
OwnReadContractResolves ==
    /\ own.pc = "readContract"
    /\ \E owner \in OwnerDomain : OwnStep(checkOwnerAfterRead(own, owner))

\* checkOwner: client.getCode rejects
OwnGetCodeThrows ==
    /\ own.pc = "getCode"
    /\ OwnStep(checkOwnerThrow(own, "getCode"))

\* checkOwner: client.getCode resolves
OwnGetCodeResolves ==
    /\ own.pc = "getCode"
    /\ \E code \in CodeDomain : OwnStep(checkOwnerAfterCode(own, code))

\* tryReadOwner: contract.owner() or contract.getOwner() rejects
OwnOwnerFnThrows ==
    /\ own.pc \in {"owner()", "getOwner()"}
    /\ OwnStep(tryReadOwnerAfterThrow(own))

\* tryReadOwner: contract.owner() or contract.getOwner() resolves
OwnOwnerFnResolves ==
    /\ own.pc \in {"owner()", "getOwner()"}
    /\ \E owner \in OwnerDomain : OwnStep(tryReadOwnerAfterRead(own, owner))

\* the fetch of the honeypot service rejects (abort by timeout, network error)
HpFetchThrows ==
    /\ hp.pc = "fetch"
    /\ \E err \in FetchErrors :
          HpStep(IF variant = "route" THEN runHoneypotCheckCatch(hp, err)
                 ELSE checkHoneypotCatch(hp, err))

\* what the framework's fetch keeps of a response fetched with
\* next: {revalidate: 60}: a 200 response whose body could be read, under
\* the URL (token address and chain id); cache: "no-store" keeps nothing
cacheStore(c, h, res, scan) ==
    IF variant = "route" /\ res.status = 200 /\ res.body.kind # "broken"
    THEN {e \in c : ~(e.token = h.token /\ e.chain = h.chain)}
         \cup {[token |-> h.token, chain |-> h.chain, res |-> res, scan |-> scan]}
    ELSE c

\* the service answers and the fetch resolves with its response (headers
\* received)
HpFetchResolves ==
    /\ hp.pc = "fetch"
    /\ \E res \in HttpResponses :
          /\ hp' = [(IF variant = "route" THEN runHoneypotCheckAfterFetch(hp, res)
                     ELSE checkHoneypotAfterFetch(hp, res)) EXCEPT !.answeredIn = scans.n]
          /\ cache' = cacheStore(cache, hp, res, scans.n)
    /\ calls' = calls \cup HpCall(hp')
    /\ UNCHANGED <<variant, env, req, hnd, own, lp, aggIn, aggOut, aggAlt, view, scans>>

\* the framework's fetch resolves with the response it stored for the URL,
\* fresh or stale, without waiting for the service
HpFetchCached ==
    /\ variant = "route"
    /\ hp.pc = "fetch"
    /\ \E e \in cache :
          /\ e.token = hp.token /\ e.chain = hp.chain
          /\ HpStep([runHoneypotCheckAfterFetch(hp, e.res) EXCEPT !.answeredIn = e.scan])

\* the timer of fetchWithTimeout fires while the fetch is pending:
\* controller.abort() rejects the fetch and checkHoneypot's catch block runs
HpTimeout ==
    /\ hp.timer = "armed"
    /\ HpStep([checkHoneypotCatch(hp, AbortError) EXCEPT !.timer = "fired"])

\* res.text() / res.json() settles
HpBodySettles ==
    /\ hp.pc \in {"text", "json"}
    /\ HpStep(IF variant = "route" THEN runHoneypotCheckAfterText(hp)
              ELSE IF hp.pc = "text" THEN checkHoneypotAfterText(hp)
              ELSE checkHoneypotAfterJson(hp))

\* factory.getPair rejects
LpGetPairThrows ==
    /\ lp.pc = "getPair"
    /\ LpStep(lpThrow(lp, "getPair"))

\* factory.getPair resolves
LpGetPairResolves ==
    /\ lp.pc = "getPair"
    /\ \E pairAddress \in PairDomain : LpStep(lpAfterGetPair(lp, pairAddress))

\* one of pair.token0(), pair.token1(), pair.getReserves() rejects
LpPairReadsThrow ==
    /\ lp.pc = "pairReads"
    /\ LpStep(lpThrow(lp, "pairReads"))

\* pair.token0(), pair.token1(), pair.getReserves() all resolve
LpPairReadsResolve ==
    /\ lp.pc = "pairReads"
    /\ \E side \in SideDomain(lp),
          b \in RawReserves, t \in TokenRawReserves, flip \in BOOLEAN :
          LpStep(lpAfterPairReads(lp, side[1], side[2], IF flip THEN <<b, t>> ELSE <<t, b>>))

\* meta.decimals() rejects
LpDecimalsThrows ==
    /\ lp.pc = "decimals"
    /\ LpStep(lpAfterDecimals(lp, None))

\* meta.decimals() resolves
LpDecimalsResolves ==
    /\ lp.pc = "decimals"
    /\ \E d \in DecimalsDomain : LpStep(lpAfterDecimals(lp, Some(d)))

CheckSteps ==
    \/ OwnReadContractThrows \/ OwnReadContractResolves
    \/ OwnGetCodeThrows \/ OwnGetCodeResolves
    \/ OwnOwnerFnThrows \/ OwnOwnerFnResolves
    \/ HpFetchThrows \/ HpFetchResolves \/ HpTimeout \/ HpBodySettles
    \/ LpGetPairThrows \/ LpGetPairResolves
    \/ LpPairReadsThrow \/ LpPairReadsResolve
    \/ LpDecimalsThrows \/ LpDecimalsResolves

----------------------------------------------------------------------------
(* Result card of the page: getBeginnerSummary and renderDetails *)

\* A label is the sequence of its characters, so that toLowerCase() and
\* includes() are computed on the text itself.
OwnerLabelChars ==
    <<"C", "o", "n", "t", "r", "a", "c", "t", " ", "O", "w", "n", "e", "r", "s", "h", "i", "p">>

HoneypotLibLabelChars ==
    <<"H", "o", "n", "e", "y", "p", "o", "t", " ", "R", "i", "s", "k", " ", "(", "H", "o", "n", "e", "y", "p", "o", "t", ".", "i", "s", ")">>

HoneypotRouteLabelChars ==
    <<"H", "o", "n", "e", "y", "p", "o", "t", " ", "B", "e", "h", "a", "v", "i", "o", "u", "r">>

LpLabelChars ==
    <<"L", "i", "q", "u", "i", "d", "i", "t", "y", " ", "&", " ", "L", "P", " ", "H", "e", "a", "l", "t", "h">>

\* the labels the checks emit, and labels in upper case, with the word
\* split, with the word embedded, and empty
RenderLabels ==
    {OwnerLabelChars, HoneypotLibLabelChars, HoneypotRouteLabelChars, LpLabelChars,
     <<"O", "W", "N", "E", "R", "S", "H", "I", "P", " ", "/", " ", "H", "O", "N", "E", "Y", "P", "O", "T">>,
     <<"O", "w", "n", "e", "r", " ", "s", "h", "i", "p">>,
     <<"A", "n", "t", "i", "-", "h", "o", "n", "e", "y", "p", "o", "t", "s">>,
     <<>>}

UpperCase ==
    <<"A", "B", "C", "D", "E", "F", "G", "H", "I", "J", "K", "L", "M", "N", "O", "P", "Q", "R", "S", "T", "U", "V", "W", "X", "Y", "Z">>

LowerCase ==
    <<"a", "b", "c", "d", "e", "f", "g", "h", "i", "j", "k", "l", "m", "n", "o", "p", "q", "r", "s", "t", "u", "v", "w", "x", "y", "z">>

\* String.prototype.toLowerCase on a label
labelToLowerCase(label) ==
    [i \in 1..Len(label) |->
        IF \E k \in 1..Len(UpperCase) : UpperCase[k] = label[i]
        THEN LowerCase[CHOOSE k \in 1..Len(UpperCase) : UpperCase[k] = label[i]]
        ELSE label[i]]

\* String.prototype.includes
includesText(text, needle) ==
    \E i \in 0..(Len(text) - Len(needle)) :
        \A k \in 1..Len(needle) : text[i + k] = needle[k]

Pages == {"page.tsx", "part_000"}

getBeginnerSummaryCaseSensitive(page, check) ==
    LET isOwnership == includesText(check.label,
                           <<"o", "w", "n", "e", "r", "s", "h", "i", "p">>)
        isHoneypot  == includesText(check.label,
                           <<"h", "o", "n", "e", "y", "p", "o", "t">>)
        old         == page = "page.tsx"
    IN  IF isOwnership
        THEN IF check.level = "green"
             THEN IF old
                  THEN "Ownership looks okay. Either it's renounced or handled in a way that is common for established projects."
                  ELSE "Ownership looks okay. Either it is renounced or handled in a way that is common for established projects."
             ELSE IF check.level = "yellow"
             THEN "Contract is still controlled by a wallet. Team can change important settings, so there is real rug risk if they are not trusted."
             ELSE "Ownership looks dangerous. This setup gives too much power to someone over the contract."
        ELSE IF isHoneypot
        THEN IF check.level = "green"
             THEN IF old
                  THEN "No honeypot behaviour was detected in this basic check. You should still be careful, but it doesn't look like an obvious trap."
                  ELSE "No honeypot behaviour was detected in this basic check. You should still be careful, but it does not look like an obvious trap."
             ELSE IF check.level = "yellow"
             THEN IF old
                  THEN "Honeypot checks were inconclusive or the token is not in the honeypot database. Treat it as unknown / risky and look deeper."
                  ELSE "Honeypot checks were inconclusive or the token is not in the honeypot database. Treat it as unknown or risky and look deeper."
             ELSE IF old
                  THEN "High honeypot risk. This token may block sells or heavily tax trades - very likely a trap."
                  ELSE "High honeypot risk. This token may block sells or heavily tax trades and is very likely a trap."
        ELSE IF check.level = "green"
             THEN "This signal looks fine and does not show obvious danger."
             ELSE IF check.level = "yellow"
             THEN "There are some warning signs here. You should dig deeper before entering."
             ELSE "This signal is strongly negative. Assume high risk unless proven otherwise."

\* the sentence shown to beginners for a check; the two versions of the page
\* word four of the sentences differently (the typographic apostrophe and
\* dash of page.tsx are written ' and -)
getBeginnerSummary(page, check) ==
    LET isOwnership == includesText(labelToLowerCase(check.label),
                           <<"o", "w", "n", "e", "r", "s", "h", "i", "p">>)
        isHoneypot  == includesText(labelToLowerCase(check.label),
                           <<"h", "o", "n", "e", "y", "p", "o", "t">>)
        old         == page = "page.tsx"
    IN  IF isOwnership
        THEN IF check.level = "green"
             THEN IF old
                  THEN "Ownership looks okay. Either it's renounced or handled in a way that is common for established projects."
                  ELSE "Ownership looks okay. Either it is renounced or handled in a way that is common for established projects."
             ELSE IF check.level = "yellow"
             THEN "Contract is still controlled by a wallet. Team can change important settings, so there is real rug risk if they are not trusted."
             ELSE "Ownership looks dangerous. This setup gives too much power to someone over the contract."
        ELSE IF isHoneypot
        THEN IF check.level = "green"
             THEN IF old
                  THEN "No honeypot behaviour was detected in this basic check. You should still be careful, but it doesn't look like an obvious trap."
                  ELSE "No honeypot behaviour was detected in this basic check. You should still be careful, but it does not look like an obvious trap."
             ELSE IF check.level = "yellow"
             THEN IF old
                  THEN "Honeypot checks were inconclusive or the token is not in the honeypot database. Treat it as unknown / risky and look deeper."
                  ELSE "Honeypot checks were inconclusive or the token is not in the honeypot database. Treat it as unknown or risky and look deeper."
             ELSE IF old
                  THEN "High honeypot risk. This token may block sells or heavily tax trades - very likely a trap."
                  ELSE "High honeypot risk. This token may block sells or heavily tax trades and is very likely a trap."
        ELSE IF check.level = "green"
             THEN "This signal looks fine and does not show obvious danger."
             ELSE IF check.level = "yellow"
             THEN "There are some warning signs here. You should dig deeper before entering."
             ELSE "This signal is strongly negative. Assume high risk unless proven otherwise."

Paragraph(className, children) == [className |-> className, children |-> children]

renderDetailsSummaryOnly(page, explainMode, check) ==
    IF explainMode = "pro"
    THEN <<Paragraph("text-slate-300", <<check.details>>)>>
    ELSE <<Paragraph("text-slate-100", <<getBeginnerSummary(page, check)>>)>>

\* the paragraphs of a check's card, in document order
renderDetails(page, explainMode, check) ==
    IF explainMode = "pro"
    THEN <<Paragraph("text-slate-300", <<check.details>>)>>
    ELSE <<Paragraph("text-slate-100", <<getBeginnerSummary(page, check)>>),
           Paragraph("text-slate-500", <<"Technical details:", " ", check.details>>)>>

\* checks handed to the card: a result as it arrives in the response body
RenderDetails == {"", "Owner: 0x1234", "No pool found on the main DEX."}

RenderChecks ==
    {[id |-> "check", label |-> label, level |-> level, details |-> details] :
        label \in RenderLabels, level \in RiskLevel, details \in RenderDetails}

\* the state of HomePage after its first render, with no invocation of
\* handleScan running
IdleView ==
    [page |-> "page.tsx", explainMode |-> "beginner", check |-> None, out |-> None,
     tokenAddress |-> "", loading |-> FALSE, result |-> None, error |-> "",
     lastScanAt |-> None, showAdvanced |-> FALSE, running |-> <<>>]

----------------------------------------------------------------------------
(* Specification of a scan request served by a POST handler *)

Init ==
    /\ variant \in {"lib", "route"}
    /\ env \in SUBSET Chains
    /\ ModuleLoads(variant, env)
    /\ req = NoRequest
    /\ hnd = IdleHnd
    /\ own = IdleOwn
    /\ hp = IdleHp
    /\ lp = IdleLp
    /\ calls = {}
    /\ aggIn = <<>>
    /\ aggOut = None
    /\ aggAlt = None
    /\ view = IdleView
    /\ cache = {}
    /\ scans = [n |-> 0, max |-> 1]

Next == PostReceive \/ PostValidate \/ PostSettle \/ CheckSteps

Spec == Init /\ [][Next]_vars

(* Specification of a handler serving requests one after the other *)

InitScans ==
    /\ variant \in {"lib", "route"}
    /\ env = Chains
    /\ req = NoRequest
    /\ hnd = IdleHnd
    /\ own = IdleOwn
    /\ hp = IdleHp
    /\ lp = IdleLp
    /\ calls = {}
    /\ aggIn = <<>>
    /\ aggOut = None
    /\ aggAlt = None
    /\ view = IdleView
    /\ cache = {}
    /\ scans = [n |-> 0, max |-> MaxScans]

NextScans == Next \/ HpFetchCached

SpecScans == InitScans /\ [][NextScans]_vars

(* Specification of one check function invoked directly *)

InitCheck ==
    /\ variant \in {"lib", "route"}
    /\ env = Chains
    /\ req = NoRequest
    /\ hnd = [IdleHnd EXCEPT !.pc = "direct"]
    /\ own = IdleOwn
    /\ hp = IdleHp
    /\ lp = IdleLp
    /\ calls = {}
    /\ aggIn = <<>>
    /\ aggOut = None
    /\ aggAlt = None
    /\ view = IdleView
    /\ cache = {}
    /\ scans = [n |-> 0, max |-> 1]

NextCheck == CallOwnershipCheck \/ CallHoneypotCheck \/ CallLiquidityCheck \/ CheckSteps

SpecCheck == InitCheck /\ [][NextCheck]_vars

(* Specification of the aggregators as pure functions *)

Stub(level) == RiskCheckResult("check", "Check", level, <<"details">>)

InitAgg ==
    /\ variant = "lib"
    /\ env = Chains
    /\ req = NoRequest
    /\ hnd = [IdleHnd EXCEPT !.pc = "pure"]
    /\ own = IdleOwn
    /\ hp = IdleHp
    /\ lp = IdleLp
    /\ calls = {}
    /\ aggIn \in SeqsUpTo({Stub(level) : level \in RiskLevel}, MaxChecks)
    /\ aggOut = None
    /\ aggAlt = None
    /\ view = IdleView
    /\ cache = {}
    /\ scans = [n |-> 0, max |-> 1]

\* both aggregators are applied to the same checks sequence
Aggregate ==
    /\ hnd.pc = "pure"
    /\ aggOut = None
    /\ aggAlt = None
    /\ view = IdleView
    /\ cache = {}
    /\ scans = [n |-> 0, max |-> 1]
    /\ aggOut' = Some([results |-> aggregateResults(aggIn), risk |-> aggregateOverallRisk(aggIn)])
    /\ UNCHANGED <<variant, env, req, hnd, own, hp, lp, calls, aggIn, aggAlt, view, cache, scans>>

\* the orderings of a checks sequence, and the sequence with one more copy
\* of a check it already holds, at either end
Rearrangements(checks) ==
    LET n     == Len(checks)
        perms == {f \in [1..n -> 1..n] : \A i, j \in 1..n : f[i] = f[j] => i = j}
    IN  {[i \in 1..n |-> checks[f[i]]] : f \in perms}
        \cup {Append(checks, checks[i]) : i \in 1..n}
        \cup {<<checks[i]>> \o checks : i \in 1..n}

\* both aggregators are applied to a rearrangement of the same checks
AggregateRearranged ==
    /\ hnd.pc = "pure"
    /\ aggOut # None /\ aggAlt = None
    /\ \E checks \in Rearrangements(aggIn) :
          aggAlt' = Some([checks  |-> checks,
                          results |-> aggregateResults(checks),
                          risk    |-> aggregateOverallRisk(checks)])
    /\ UNCHANGED <<variant, env, req, hnd, own, hp, lp, calls, aggIn, aggOut, view, cache, scans>>

NextAgg == Aggregate \/ AggregateRearranged

SpecAgg == InitAgg /\ [][NextAgg]_vars

(* Specification of the result card rendering one check *)

InitRender ==
    /\ variant = "lib"
    /\ env = Chains
    /\ req = NoRequest
    /\ hnd = [IdleHnd EXCEPT !.pc = "page"]
    /\ own = IdleOwn
    /\ hp = IdleHp
    /\ lp = IdleLp
    /\ calls = {}
    /\ aggIn = <<>>
    /\ aggOut = None
    /\ aggAlt = None
    /\ \E page \in Pages, check \in RenderChecks :
          view = [IdleView EXCEPT !.page = page, !.check = Some(check)]
    /\ cache = {}
    /\ scans = [n |-> 0, max |-> 1]

\* the Beginner / Pro buttons
SetExplainMode ==
    /\ hnd.pc = "page"
    /\ \E mode \in {"beginner", "pro"} :
          /\ mode # view.explainMode
          /\ view' = [view EXCEPT !.explainMode = mode, !.out = None]
    /\ UNCHANGED <<variant, env, req, hnd, own, hp, lp, calls, aggIn, aggOut, aggAlt, cache, scans>>

\* React renders the card of the check with the current explain mode
RenderCard ==
    /\ hnd.pc = "page"
    /\ view.check # None /\ view.out = None
    /\ view' = [view EXCEPT !.out = Some(renderDetails(view.page, view.explainMode, The(view.check)))]
    /\ UNCHANGED <<variant, env, req, hnd, own, hp, lp, calls, aggIn, aggOut, aggAlt, cache, scans>>

NextRender == SetExplainMode \/ RenderCard

SpecRender == InitRender /\ [][NextRender]_vars

(* Specification of the scan panel of the page: handleScan and its button *)

\* what the scan endpoint answers: a result, an error the handler words, and
\* an error status whose body carries no error text
ScanResponses ==
    {Response(200, "", Some(aggregateResults(<<Stub(level)>>))) : level \in RiskLevel}
    \cup {Response(400, "Invalid token address format.", None), Response(500, "", None)}

ScanButtonNeverDisabled == FALSE

\* the scan button's disabled attribute
ScanButtonDisabled == view.loading

\* handleScan from the click to its first await
handleScanBegin(v) ==
    LET cleared == [v EXCEPT !.error = "", !.result = None,
                             !.showAdvanced = IF v.page = "part_000" THEN FALSE ELSE @]
    IN  IF Trim(v.tokenAddress) = ""
        THEN [cleared EXCEPT !.error = "Paste a valid token contract address first."]
        ELSE [cleared EXCEPT !.loading = TRUE,
                             !.running = Append(@, [pc |-> "fetch", res |-> None])]

\* the catch and finally blocks of the i-th running invocation
handleScanCatch(v, i, message) ==
    [v EXCEPT !.error = IF message = "" THEN "Something went wrong while scanning this token."
                        ELSE message,
              !.loading = FALSE,
              !.running = SubSeq(@, 1, i - 1) \o SubSeq(@, i + 1, Len(@))]

\* the i-th running invocation after fetch settled: with no response the
\* fetch rejected
handleScanAfterFetch(v, i, res) ==
    IF res = None THEN handleScanCatch(v, i, "Failed to fetch")
    ELSE [v EXCEPT !.running[i] = [pc |-> "res.json()", res |-> res]]

\* the i-th running invocation after res.json() settled, at the time now
handleScanAfterJson(v, i, parsed, now) ==
    LET res == The(v.running[i].res)
    IN  IF ~parsed THEN handleScanCatch(v, i, "Unexpected token < in JSON at position 0")
        ELSE IF ~Ok(res) THEN handleScanCatch(v, i, IF res.error = "" THEN "Scan failed" ELSE res.error)
        ELSE [v EXCEPT !.result = res.result,
                       !.lastScanAt = Some(now),
                       !.loading = FALSE,
                       !.running = SubSeq(@, 1, i - 1) \o SubSeq(@, i + 1, Len(@))]

InitPage ==
    /\ variant = "lib"
    /\ env = Chains
    /\ req = NoRequest
    /\ hnd = [IdleHnd EXCEPT !.pc = "home"]
    /\ own = IdleOwn
    /\ hp = IdleHp
    /\ lp = IdleLp
    /\ calls = {}
    /\ aggIn = <<>>
    /\ aggOut = None
    /\ aggAlt = None
    /\ \E page \in Pages : view = [IdleView EXCEPT !.page = page]
    /\ cache = {}
    /\ scans = [n |-> 0, max |-> MaxScans]

\* the user edits the address field
SetTokenAddress ==
    /\ hnd.pc = "home"
    /\ \E text \in {"", "  ", "0xtok"} :
          /\ text # view.tokenAddress
          /\ view' = [view EXCEPT !.tokenAddress = text]
    /\ UNCHANGED <<variant, env, req, hnd, own, hp, lp, calls, aggIn, aggOut, aggAlt, cache, scans>>

\* the button of the advanced panel, which only the later page has
ToggleAdvanced ==
    /\ hnd.pc = "home"
    /\ view.page = "part_000"
    /\ view' = [view EXCEPT !.showAdvanced = ~@]
    /\ UNCHANGED <<variant, env, req, hnd, own, hp, lp, calls, aggIn, aggOut, aggAlt, cache, scans>>

\* a click on the scan button: handleScan runs up to its first await; scans
\* counts the requests sent
HandleScan ==
    /\ hnd.pc = "home"
    /\ ~ScanButtonDisabled
    /\ Trim(view.tokenAddress) # "" => scans.n < scans.max
    /\ view' = handleScanBegin(view)
    /\ scans' = [scans EXCEPT !.n = IF Trim(view.tokenAddress) # "" THEN @ + 1 ELSE @]
    /\ UNCHANGED <<variant, env, req, hnd, own, hp, lp, calls, aggIn, aggOut, aggAlt, cache>>

\* fetch settles for a running invocation: the request fails, or a response
\* arrives
ScanFetchSettles ==
    /\ hnd.pc = "home"
    /\ \E i \in 1..Len(view.running) :
          /\ view.running[i].pc = "fetch"
          /\ \E res \in {None} \cup {Some(r) : r \in ScanResponses} :
                view' = handleScanAfterFetch(view, i, res)
    /\ UNCHANGED <<variant, env, req, hnd, own, hp, lp, calls, aggIn, aggOut, aggAlt, cache, scans>>

\* res.json() settles for a running invocation: the body of an error status
\* need not be JSON
ScanJsonSettles ==
    /\ hnd.pc = "home"
    /\ \E i \in 1..Len(view.running) :
          /\ view.running[i].pc = "res.json()"
          /\ \E parsed \in (IF Ok(The(view.running[i].res)) THEN {TRUE} ELSE BOOLEAN) :
                view' = handleScanAfterJson(view, i, parsed, scans.n)
    /\ UNCHANGED <<variant, env, req, hnd, own, hp, lp, calls, aggIn, aggOut, aggAlt, cache, scans>>

NextPage == SetTokenAddress \/ ToggleAdvanced \/ HandleScan \/ ScanFetchSettles \/ ScanJsonSettles

SpecPage == InitPage /\ [][NextPage]_vars

----------------------------------------------------------------------------
(* Properties *)

AnyLevel(seq, level) == \E i \in 1..Len(seq) : seq[i].level = level

\* C1: for every checks sequence both aggregators return red iff at least one
\* check is red, yellow iff no check is red and at least one is yellow, green
\* iff all checks are green, and the two aggregators agree.
C1_WorstCaseWins ==
    \A r \in aggOut :
        LET overall == r.results.overall
        IN  /\ overall = "red" <=> AnyLevel(aggIn, "red")
            /\ overall = "yellow" <=> (~AnyLevel(aggIn, "red") /\ AnyLevel(aggIn, "yellow"))
            /\ overall = "green" <=> (\A i \in 1..Len(aggIn) : aggIn[i].level = "green")
            /\ r.risk = overall

C1_Witness ==
    /\ aggOut # None
    /\ Len(aggIn) = 3
    /\ aggIn[1].level = "yellow" /\ aggIn[2].level = "green" /\ aggIn[3].level = "red"
    /\ The(aggOut).risk = "red"

\* C2: whatever the external calls answer, each check function completes by
\* returning a RiskCheckResult with a level of the scale; none ever rejects.
C2_ChecksNeverReject ==
    \A c \in {own, hp, lp} :
        /\ c.pc # "rejected"
        /\ c.pc = "returned" => (c.result # None /\ The(c.result).level \in RiskLevel)

\* a check returned after the call it made last had failed
C2_Witness ==
    /\ own.pc = "returned"
    /\ Call("own", "getCode", 0) \in calls
    /\ own.code = None
    /\ The(own.result).id = "owner-unknown"

\* the request carries a syntactically valid address and a supported chain
InputValid ==
    /\ req.json
    /\ req.tokenAddress.type = "string" /\ isAddress(Trim(req.tokenAddress.val))
    /\ req.chain.type = "undefined" \/ req.chain.val \in {"eth", "bsc"}

\* C3: once input validation has passed, the handler always answers with an
\* AggregatedRiskResult holding one result per check, never with an error.
C3_ValidInputAlwaysScanned ==
    (hnd.pc = "done" /\ InputValid) =>
        LET response == The(hnd.response)
        IN  /\ response.status = 200
            /\ response.result # None
            /\ Len(The(response.result).checks) = Len(Awaited)

\* the request has a body whose token address is malformed or whose chain is
\* not supported
InputMalformed == req.json /\ ~InputValid

\* C4: a request with a malformed address or an unsupported chain is answered
\* with a client error before any check runs or any external call is issued,
\* and such input errors are the only errors that end a request in an error.
C4_OnlyInputErrorsAbort ==
    hnd.pc = "done" =>
        LET response == The(hnd.response)
        IN  /\ InputMalformed =>
                /\ response.status >= 400 /\ response.status <= 499
                /\ calls = {}
                /\ own.pc = "idle" /\ hp.pc = "idle" /\ lp.pc = "idle"
            /\ response.result = None => (InputMalformed \/ ~req.json)

\* the honeypot check read a JSON object from a 2xx response
HpPayloadRead ==
    /\ hp.pc = "returned" /\ hp.res # None
    /\ Ok(The(hp.res)) /\ The(hp.res).body.kind = "json"
    /\ The(hp.res).body.data.shape = "object"

\* the isHoneypot flag of the payload: honeypotResult.isHoneypot, and in
\* route.ts the first one present of honeypotResult.isHoneypot, isHoneypot,
\* simulation.isHoneypot
HpPayloadFlag ==
    LET data == The(hp.res).body.data
    IN  IF variant = "route"
        THEN IF data.isHoneypot # None THEN data.isHoneypot
             ELSE IF data.topIsHoneypot # None THEN data.topIsHoneypot
             ELSE data.simIsHoneypot
        ELSE data.isHoneypot

\* C5: when the payload's isHoneypot flag is true the honeypot result is red,
\* whatever the risk category and the score are.
C5_HoneypotFlagIsRed ==
    (HpPayloadRead /\ HpPayloadFlag = Some(TRUE)) => The(hp.result).level = "red"

\* flag true, with the most reassuring category and score
C5_Witness ==
    /\ HpPayloadRead /\ variant = "lib"
    /\ HpPayloadFlag = Some(TRUE)
    /\ The(hp.res).body.data.risk = Some("very_low")
    /\ The(hp.res).body.data.riskLevel = Some(0)
    /\ The(hp.result).level = "red"

\* C6: when the owner read succeeds with the zero address, the ownership
\* result is green with id "owner-renounced".
C6_ZeroOwnerIsRenounced ==
    (own.pc = "returned" /\ own.owner = Some(ZERO_ADDRESS)) =>
        /\ The(own.result).level = "green"
        /\ The(own.result).id = "owner-renounced"

\* C7: when the owner accessor cannot be read, the ownership result is green
\* with id "owner-unknown" and details that state the gap; never yellow or red.
C7_UnreadableOwnerIsGreen ==
    (own.pc = "returned" /\ isAddress(own.token) /\ own.owner = None) =>
        /\ The(own.result).level = "green"
        /\ The(own.result).id = "owner-unknown"
        /\ The(own.result).details = OwnerUnknownDetails

\* C8: for an owner that is neither the zero address nor on the allow-list the
\* level follows the bytecode at the owner address: yellow "owner-eoa" without
\* code, green "owner-contract" with code.
C8_OwnerClassifiedByBytecode ==
    (/\ own.pc = "returned" /\ own.owner # None
     /\ The(own.owner) # ZERO_ADDRESS
     /\ ~isTrustedOwner(own.chain, The(own.owner))
     /\ The(own.result).id # "owner-unknown") =>
        /\ own.code # None
        /\ The(own.code) \in {None, Some("0x")} =>
              (The(own.result).level = "yellow" /\ The(own.result).id = "owner-eoa")
        /\ The(own.code) \notin {None, Some("0x")} =>
              (The(own.result).level = "green" /\ The(own.result).id = "owner-contract")

LpNoPairAnywhere ==
    /\ lp.pc = "returned"
    /\ Len(lp.pairs) = Len(DEX_CONFIG[lp.chain].baseTokens)
    /\ \A i \in 1..Len(lp.pairs) : lp.pairs[i] = ZERO_ADDRESS

\* C10: when the factory reports no pool for every configured base asset the
\* liquidity result is red.
C10_NoPoolIsRed == LpNoPairAnywhere => The(lp.result).level = "red"

C10_Witness == LpNoPairAnywhere /\ Len(lp.pairs) = 3 /\ The(lp.result).level = "red"


\* the liquidity check returned after finding a usable pool
LpPoolFound == lp.pc = "returned" /\ lp.found # None

\* C11: the level of a found pool depends only on the base-asset reserve and
\* the base kind: stable base, reserve < 2000 red, < 10000 yellow, else green;
\* native base, reserve < 5 red, < 30 yellow, else green.
C11_LevelByBaseReserve ==
    LpPoolFound =>
        LET pool  == The(lp.found)
            x     == pool.baseReserve
            level == The(lp.result).level
            low   == IF pool.base.kind = "stable" THEN 2000 ELSE 5
            high  == IF pool.base.kind = "stable" THEN 10000 ELSE 30
        IN  /\ pool.base.kind \in {"stable", "native"}
            /\ level = "red" <=> LessThan(x, low)
            /\ level = "yellow" <=> (~LessThan(x, low) /\ LessThan(x, high))
            /\ level = "green" <=> ~LessThan(x, high)

\* a USDT pool holding 1500 USDT is red although the token side is not empty
C11_Witness ==
    /\ LpPoolFound
    /\ The(lp.found).base.symbol = "USDT"
    /\ The(lp.found).baseReserve = Num(15, 2)
    /\ The(lp.found).tokenReserve # Num(0, -18)
    /\ The(lp.found).tokenReserve # Num(0, -6)
    /\ The(lp.result).level = "red"

\* C12: in the three-check scan, whenever the liquidity check finds no usable
\* pool the response's overall level is red, whatever the other two checks
\* returned and in whatever order the checks completed.
C12_NoPoolScanIsRed ==
    (hnd.pc = "done" /\ lp.pc = "returned" /\ lp.found = None) =>
        /\ The(hnd.response).result # None
        /\ The(The(hnd.response).result).overall = "red"

\* no pool, while ownership is green and the honeypot check is yellow
C12_Witness ==
    /\ hnd.pc = "done" /\ lp.pc = "returned" /\ lp.found = None
    /\ The(own.result).level = "green"
    /\ The(hp.result).level = "yellow"
    /\ The(The(hnd.response).result).overall = "red"

\* a details text is non-empty when one of its fragments is
NonEmpty(details) == \E i \in 1..Len(details) : details[i] # ""

\* C13: every branch of every check yields a result with non-empty details
\* and a level of the scale; buildDetails never returns an empty text.
C13_DetailsNeverEmpty ==
    \A c \in {own, hp, lp} :
        c.pc = "returned" =>
            /\ NonEmpty(The(c.result).details)
            /\ The(c.result).level \in RiskLevel

\* buildDetails on a payload none of whose fields yields a part
C13_Witness ==
    /\ HpPayloadRead /\ variant = "lib"
    /\ The(hp.res).body.data.risk = Some("")
    /\ The(hp.res).body.data.isHoneypot = None
    /\ The(hp.res).body.data.flags = HollowExtras.flags
    /\ The(hp.result).level = "yellow"
    /\ The(hp.result).details = detailsFallback("yellow")


\* C14: in beginner mode the card of any check, whatever its label and level,
\* shows a non-empty sentence first and the check's original details as a
\* second line after it.
C14_BeginnerCardTotal ==
    \A out \in view.out :
        view.explainMode = "beginner" =>
            /\ Len(out) = 2
            /\ Len(out[1].children) = 1 /\ out[1].children[1] # ""
            /\ out[2].children[Len(out[2].children)] = The(view.check).details

\* a label that names neither ownership nor honeypot, rendered for beginners
C14_Witness ==
    /\ view.out # None /\ view.explainMode = "beginner"
    /\ The(view.check).label = LpLabelChars
    /\ The(view.check).level = "red"
    /\ The(view.out)[1].children = <<"This signal is strongly negative. Assume high risk unless proven otherwise.">>
    /\ The(view.out)[2].children[3] = "No pool found on the main DEX."


\* C15: the overall level does not depend on the order of the checks nor on
\* how many copies of a check are present: on any permutation of a sequence,
\* and on the sequence with a further copy of one of its checks, both
\* aggregators return the overall level they return on the sequence itself.
C15_OrderAndCountInsensitive ==
    \A out \in aggOut : \A alt \in aggAlt :
        /\ alt.results.overall = out.results.overall
        /\ alt.risk = out.risk

\* the sequence <<green, red, yellow>> aggregated again as <<yellow, green, red>>
C15_Witness ==
    /\ aggIn = <<Stub("green"), Stub("red"), Stub("yellow")>>
    /\ aggAlt # None
    /\ The(aggAlt).checks = <<Stub("yellow"), Stub("green"), Stub("red")>>
    /\ The(aggAlt).risk = "red"
    /\ The(aggAlt).results.overall = "red"


\* C16: a scan's result never depends on an earlier scan: the honeypot
\* response a scan consumes is one the service gave during that scan, not a
\* response kept from an earlier scan.
C16_NoReuseAcrossScans ==
    hp.res # None => hp.answeredIn = scans.n

\* C17: the honeypot check's wait on the service is bounded: whenever the
\* check waits for the service's headers or for the body of its response, the
\* timeout that ends the wait with a yellow result is pending.
C17_HoneypotWaitIsBounded ==
    hp.pc \in {"fetch", "text", "json"} => hp.timer = "armed"

\* the risk category of the payload, spelled as the service spells it
HpPayloadRisk == The(hp.res).body.data.risk

\* C18: when the isHoneypot flag is false or absent, the risk category alone
\* decides the level: honeypot, very high and high give red, medium gives
\* yellow, low and very low give green, whatever the score.
C18_CategoryDecides ==
    (HpPayloadRead /\ HpPayloadFlag # Some(TRUE)) =>
        LET level == The(hp.result).level
        IN  /\ HpPayloadRisk \in {{"honeypot"}, {"very_high"}, {"high"}} => level = "red"
            /\ HpPayloadRisk = {"medium"} => level = "yellow"
            /\ HpPayloadRisk \in {{"low"}, {"very_low"}} => level = "green"

\* the payload carries no category, or one outside the taxonomy
HpNoCategory ==
    HpPayloadRisk \notin {{"honeypot"}, {"very_high"}, {"high"}, {"medium"}, {"low"}, {"very_low"}}

\* C19: without a recognized category and with the flag false or absent, the
\* score decides: 90 and above red, 60 to 89 yellow, 20 to 59 yellow, below 20
\* green; a payload with no score gives yellow.
C19_ScoreFallback ==
    (HpPayloadRead /\ HpPayloadFlag # Some(TRUE) /\ HpNoCategory) =>
        LET level == The(hp.result).level
            score == The(hp.res).body.data.riskLevel
        IN  /\ \A n \in score :
                  /\ n >= 90 => level = "red"
                  /\ (n >= 20 /\ n < 90) => level = "yellow"
                  /\ n < 20 => level = "green"
            /\ score = None => level = "yellow"

\* C20: the handler has called every check before it waits for any of them,
\* and it aggregates only once every check has returned: the response's
\* checks are the results of all of them.
C20_AllStartedAllSettled ==
    LET awaited == IF variant = "route" THEN <<own, hp, lp>> ELSE <<own, hp>>
    IN  /\ hnd.pc = "awaiting" =>
              \A i \in 1..Len(awaited) : awaited[i].pc # "idle"
        /\ \A response \in hnd.response : \A result \in response.result :
              /\ Len(result.checks) = Len(awaited)
              /\ \A i \in 1..Len(awaited) :
                    /\ awaited[i].pc = "returned"
                    /\ result.checks[i] = The(awaited[i].result)

\* the handler waits while the liquidity check is at its second base asset
\* and the other two checks still wait for their first answer
C20_Witness ==
    /\ variant = "route" /\ hnd.pc = "awaiting"
    /\ own.pc = "owner()" /\ hp.pc = "fetch"
    /\ lp.pc = "getPair" /\ lp.i = 2


\* C21: checks do not interfere: while the handler waits, a step of one check,
\* its failure or timeout included, leaves every sibling check as it is, so a
\* sibling is neither cancelled nor changed under any interleaving.
C21_ChecksDoNotInterfere ==
    [][hnd.pc = "awaiting" =>
          /\ own' # own => (hp' = hp /\ lp' = lp)
          /\ hp' # hp => (own' = own /\ lp' = lp)
          /\ lp' # lp => (own' = own /\ hp' = hp)]_vars

\* the owner could not be read and the liquidity reads failed, yet the
\* response carries the honeypot check's red verdict
C21_Witness ==
    /\ variant = "route" /\ hnd.pc = "done"
    /\ own.pc = "returned" /\ own.owner = None
    /\ lp.pc = "returned" /\ lp.found = None /\ Len(lp.pairs) = 0
    /\ HpPayloadRead /\ HpPayloadFlag = Some(TRUE)
    /\ The(The(hnd.response).result).checks[2].level = "red"
    /\ The(The(hnd.response).result).checks[2] = The(hp.result)


\* C22: given a syntactically invalid token address the ownership check
\* returns at once a red result with id "owner-invalid" and issues no chain
\* read.
C22_InvalidAddressIsRed ==
    (own.pc # "idle" /\ ~isAddress(own.token)) =>
        /\ own.pc = "returned"
        /\ The(own.result).id = "owner-invalid"
        /\ The(own.result).level = "red"
        /\ \A c \in calls : c.check # "own"

\* checkOwner called with a string that is not an address
C22_Witness ==
    /\ own.pc = "returned" /\ own.token = "nothex"
    /\ The(own.result).id = "owner-invalid"
    /\ calls = {}


\* the owner read succeeded with the one address the allow-lists hold,
\* PancakeSwap's MasterChef (listed for bsc only), in any letter case
OwnerIsMasterChef ==
    /\ own.pc = "returned" /\ own.owner # None
    /\ The(own.owner) \in {"0x73feaa1eE3", "0x73FEAA1EE3", "0x73feaa1ee3"}

\* C23: a non-zero owner on the allow-list of the scanned chain gives green
\* with id "owner-trusted" and no bytecode lookup is made; an owner listed
\* only for the other chain is not trusted and its bytecode is looked up.
C23_AllowListPerChain ==
    /\ (OwnerIsMasterChef /\ own.chain = "bsc") =>
          /\ The(own.result).id = "owner-trusted"
          /\ The(own.result).level = "green"
          /\ Call("own", "getCode", 0) \notin calls
    /\ (OwnerIsMasterChef /\ own.chain = "eth") =>
          /\ The(own.result).id \in {"owner-eoa", "owner-contract", "owner-unknown"}
          /\ Call("own", "getCode", 0) \in calls

\* a read of the ownership check failed: the owner accessors, or the
\* bytecode lookup after the owner was read
OwnReadFailed ==
    /\ own.pc \in {"returned", "rejected"} /\ isAddress(own.token)
    /\ IF own.owner = None THEN TRUE
       ELSE Call("own", "getCode", 0) \in calls /\ own.code = None

\* C24: an error at any step of the ownership check, the bytecode lookup
\* included, is caught and gives the green "owner-unknown" result, never
\* yellow or red, and the check does not reject.
C24_OwnerErrorsAreGreen ==
    OwnReadFailed =>
        /\ own.pc = "returned"
        /\ The(own.result).id = "owner-unknown"
        /\ The(own.result).level = "green"


\* the base assets of the scanned chain, in priority order
LpBases == DEX_CONFIG[lp.chain].baseTokens

\* the j-th base asset has a usable pool, going by what the factory and the
\* pair answered: a non-zero pair address whose two sides are the queried
\* token and that base, either way round
LpUsable(j) ==
    /\ j <= Len(lp.pairs)
    /\ lp.pairs[j] \notin {"", ZERO_ADDRESS}
    /\ lp.sides[j] # <<>>
    /\ LET t == ToLowerCase(lp.token)
           b == ToLowerCase(LpBases[j].address)
           x == ToLowerCase(lp.sides[j][1])
           y == ToLowerCase(lp.sides[j][2])
       IN  IF x = t THEN y = b ELSE (x = b /\ y = t)

\* the j-th base asset was answered in full and has no usable pool
LpSkipped(j) ==
    /\ j <= Len(lp.pairs)
    /\ ~LpUsable(j)
    /\ IF lp.pairs[j] \in {"", ZERO_ADDRESS} THEN TRUE ELSE lp.sides[j] # <<>>

\* C25: the liquidity check scans the base assets in priority order and
\* classifies exactly the first usable pool: every base before the one being
\* queried was skipped as unusable, after a skipped base the next base is
\* queried, a usable pool is the one classified, and once a pool is found no
\* later base is queried.
C25_FirstUsablePoolWins ==
    lp.pc # "idle" =>
        /\ \A j \in 1..Len(lp.pairs) :
              /\ j < Len(lp.pairs) => LpSkipped(j)
              /\ (LpSkipped(j) /\ j < Len(LpBases)) => Call("lp", "getPair", j + 1) \in calls
              /\ (LpUsable(j) /\ lp.pc = "returned" /\ lp.decimals # None) =>
                    /\ lp.found # None
                    /\ The(lp.found).base = LpBases[j]
                    /\ The(lp.found).pairAddress = lp.pairs[j]
              /\ LpUsable(j) => \A c \in calls : (c.check = "lp" /\ c.fn = "getPair") => c.i <= j
        /\ \A pool \in lp.found : LpUsable(Len(lp.pairs))

\* no pair on the first base, a pair with foreign sides on the second, and
\* the pool of the third base classified
C25_Witness ==
    /\ lp.pc = "returned" /\ lp.found # None
    /\ Len(lp.pairs) = 3
    /\ lp.pairs[1] = ZERO_ADDRESS
    /\ lp.pairs[2] = "0xPair1" /\ lp.sides[2] = <<"0xCd02", "0xCd02">>
    /\ The(lp.found).base = LpBases[3]

\* a factory or pool read failed: the pair lookup of the base being queried,
\* or the side and reserve reads of its pair
LpReadFailed ==
    /\ lp.pc \in {"returned", "rejected"}
    /\ IF Call("lp", "getPair", Len(lp.pairs) + 1) \in calls THEN TRUE
       ELSE /\ Len(lp.pairs) > 0
            /\ lp.pairs[Len(lp.pairs)] \notin {"", ZERO_ADDRESS}
            /\ lp.sides[Len(lp.pairs)] = <<>>

C27_DecimalsFailureDefaults ==
    (lp.pc \in {"returned", "rejected"} /\ lp.decimals = Some(None)) =>
        /\ lp.pc = "returned" /\ lp.found # None
        /\ LET pool == The(lp.found)
               low  == IF pool.base.kind = "stable" THEN 2000 ELSE 5
               high == IF pool.base.kind = "stable" THEN 10000 ELSE 30
               raw  == The(lp.raw)
           IN  /\ The(lp.result).level =
                     IF LessThan(pool.baseReserve, low) THEN "red"
                     ELSE IF LessThan(pool.baseReserve, high) THEN "yellow"
                     ELSE "green"
               /\ pool.tokenReserve = Num(raw.tokenReserveRaw.m, raw.tokenReserveRaw.e - 18)
               /\ pool.baseReserve = Num(raw.baseReserveRaw.m, raw.baseReserveRaw.e - pool.base.decimals)

\* the decimals read failed on a USDT pool holding 50000 USDT: green
C27_Witness ==
    /\ lp.pc = "returned" /\ lp.decimals = Some(None)
    /\ lp.found # None
    /\ The(lp.found).base.symbol = "USDT"
    /\ The(lp.found).baseReserve = Num(5, 4)
    /\ The(lp.result).level = "green"


\* the family of a check as its label names it: the labels the three checks
\* emit, and labels that name no known check
LabelFamily(label) ==
    IF label = OwnerLabelChars THEN "ownership"
    ELSE IF label \in {HoneypotLibLabelChars, HoneypotRouteLabelChars} THEN "honeypot"
    ELSE IF label \in {LpLabelChars, <<"O", "w", "n", "e", "r", " ", "s", "h", "i", "p">>, <<>>} THEN "unrecognized"
    ELSE "undecided"

\* the sentences of a family and level, in the wording of either version of
\* the page
FamilySentences(family, level) ==
    IF family = "ownership"
    THEN IF level = "green"
         THEN {"Ownership looks okay. Either it's renounced or handled in a way that is common for established projects.",
               "Ownership looks okay. Either it is renounced or handled in a way that is common for established projects."}
         ELSE IF level = "yellow"
         THEN {"Contract is still controlled by a wallet. Team can change important settings, so there is real rug risk if they are not trusted."}
         ELSE {"Ownership looks dangerous. This setup gives too much power to someone over the contract."}
    ELSE IF family = "honeypot"
    THEN IF level = "green"
         THEN {"No honeypot behaviour was detected in this basic check. You should still be careful, but it doesn't look like an obvious trap.",
               "No honeypot behaviour was detected in this basic check. You should still be careful, but it does not look like an obvious trap."}
         ELSE IF level = "yellow"
         THEN {"Honeypot checks were inconclusive or the token is not in the honeypot database. Treat it as unknown / risky and look deeper.",
               "Honeypot checks were inconclusive or the token is not in the honeypot database. Treat it as unknown or risky and look deeper."}
         ELSE {"High honeypot risk. This token may block sells or heavily tax trades - very likely a trap.",
               "High honeypot risk. This token may block sells or heavily tax trades and is very likely a trap."}
    ELSE IF level = "green"
         THEN {"This signal looks fine and does not show obvious danger."}
         ELSE IF level = "yellow"
         THEN {"There are some warning signs here. You should dig deeper before entering."}
         ELSE {"This signal is strongly negative. Assume high risk unless proven otherwise."}

\* C28: the card is determined by the check and the mode: in pro mode it is
\* one paragraph holding the check's details verbatim; in beginner mode its
\* sentence is the one of the check's family and level, where ownership and
\* honeypot checks have their own sentences and a check of an unrecognized
\* family, such as the liquidity check, gets the generic sentence of its level.
C28_SentenceByFamilyAndLevel ==
    \A out \in view.out :
        LET check == The(view.check) IN
        IF view.explainMode = "pro"
        THEN /\ Len(out) = 1
             /\ out[1].children = <<check.details>>
        ELSE LabelFamily(check.label) # "undecided" =>
                /\ Len(out[1].children) = 1
                /\ out[1].children[1] \in FamilySentences(LabelFamily(check.label), check.level)

\* the liquidity check at level red, shown to a beginner with the generic
\* sentence of that level
C28_Witness ==
    /\ view.out # None /\ view.explainMode = "beginner"
    /\ The(view.check).label = LpLabelChars
    /\ The(view.check).level = "red"
    /\ The(view.out)[1].children = <<"This signal is strongly negative. Assume high risk unless proven otherwise.">>


\* C29: the checks of a scan response are one entry per check, in the order
\* ownership, honeypot, liquidity (ownership, honeypot for the handler with
\* two checks), with pairwise distinct ids, in whatever order the checks
\* finished; the aggregator hands back the sequence it was given.
C29_ChecksInFixedOrder ==
    \A response \in hnd.response : \A result \in response.result :
        LET labels   == IF variant = "route"
                        THEN <<OwnershipLabel, HoneypotRouteLabel, LpLabel>>
                        ELSE <<OwnershipLabel, HoneypotLibLabel>>
            returned == IF variant = "route"
                        THEN <<The(own.result), The(hp.result), The(lp.result)>>
                        ELSE <<The(own.result), The(hp.result)>>
        IN  /\ Len(result.checks) = Len(labels)
            /\ \A i \in 1..Len(labels) : result.checks[i].label = labels[i]
            /\ \A i, j \in 1..Len(labels) : result.checks[i].id = result.checks[j].id => i = j
            /\ result.checks = returned

\* a response of three checks where the liquidity check went through all
\* three base assets and the decimals read, while the honeypot check ended
\* with its first step and the ownership check with its second
C29_Witness ==
    /\ variant = "route" /\ hnd.pc = "done"
    /\ The(hnd.response).status = 200
    /\ Len(lp.pairs) = 3 /\ lp.found # None
    /\ Call("own", "getOwner()", 0) \in calls
    /\ ~HpPayloadRead
    /\ [i \in 1..3 |-> The(The(hnd.response).result).checks[i].id] = <<"ownership", "honeypot", "lp-health">>


\* C30: in the scan panel, whatever the attempts and their outcomes: a
\* result and an error message are never shown together; while a scan is
\* loading neither the previous result nor the previous error is shown;
\* loading is true exactly while a request is in flight; and at most one
\* request is in flight.
C30_ScanPanelStates ==
    hnd.pc = "home" =>
        /\ ~(view.result # None /\ view.error # "")
        /\ view.loading => (view.result = None /\ view.error = "")
        /\ view.loading <=> view.running # <<>>
        /\ Len(view.running) <= 1

\* a second scan failed after a first one had succeeded: the error of the
\* second is shown and the verdict of the first is gone
C30_Witness ==
    /\ hnd.pc = "home" /\ scans.n = 2
    /\ view.lastScanAt = Some(1)
    /\ ~view.loading /\ view.running = <<>>
    /\ view.error = "Scan failed" /\ view.result = None

====
